---- MODULE Spec2Model ----
(***************************************************************************)
(* YouTube Sentiment Analyzer, Chrome extension.                           *)
(*                                                                         *)
(* Three contexts exchange asynchronous messages:                          *)
(*   - the content script (content.js) scrapes the comment nodes of the    *)
(*     page and scrolls the comments container,                            *)
(*   - the background service worker (background script) relays health    *)
(*     checks and batch classifications to the HTTP API,                   *)
(*   - the popup (popup.js) drives the analysis workflow and renders.      *)
(*                                                                         *)
(* JavaScript strings that the code transforms (innerText) are sequences   *)
(* of one-character strings; enumerated tokens (actions, sentiments,       *)
(* status types) are TLA+ strings.  A JavaScript object is a function on   *)
(* its own keys: a key that is not in DOMAIN is `undefined`.               *)
(***************************************************************************)
EXTENDS Integers, Sequences, FiniteSets, TLC

VARIABLES
  \* ---- the page (tab) -------------------------------------------------
  tab,            \* the active tab returned by chrome.tabs.query
  dom,            \* the ytd-comment-thread-renderer nodes, in DOM order
  hasContainer,   \* TRUE iff document.querySelector('ytd-comments#comments')
  \* ---- content script -------------------------------------------------
  csPending,      \* the scrollAndExtract request being served, or None
  csI,            \* loop variable i of scrollToLoadComments
  csTimer,        \* TRUE while the 1500 ms setTimeout is pending
  csLog,          \* what the handler of the current request has done
  \* ---- message channels -----------------------------------------------
  toContent,      \* chrome.tabs.sendMessage requests not yet delivered
  fromContent,    \* settled tabs.sendMessage promises not yet consumed
  toWorker,       \* chrome.runtime.sendMessage requests not yet delivered
  fromWorker,     \* sendMessageToBackground results not yet consumed
  tabQueries,     \* chrome.tabs.query calls not yet answered
  tabResults,     \* chrome.tabs.query results not yet consumed
  \* ---- background service worker --------------------------------------
  apiCurrent,     \* API_CONFIG.current
  keepAliveInterval, \* the setInterval handle, or Null
  timers,         \* the number of interval timers the worker has running
  pings,          \* the keepalive lines the timer has logged
  wOps,           \* analyzeSentiment / checkApiHealth calls awaiting fetch
  http,           \* fetch requests in flight, settled or not
  \* ---- persisted settings ---------------------------------------------
  storage,        \* chrome.storage.local
  \* ---- popup ----------------------------------------------------------
  initPc,         \* position of the DOMContentLoaded handler
  runPc,          \* position of analyzeComments
  morePc,         \* position of loadMoreComments
  savePc,         \* position of saveSettings
  currentComments,
  currentPredictions,
  currentFilter,
  texts,          \* local `texts` of analyzeComments
  commentsList,   \* the comment records rendered in #commentsList
  statistics,     \* the statistics rendered by displayStatistics, or Null
  videoInfo,      \* the video info rendered by displayVideoInfo, or Null
  statusBar,      \* [message, type] shown by showStatus
  loading,        \* showLoading: spinner visible, both buttons disabled
  apiStatus,      \* the #apiStatus text
  ui,             \* dark mode class and the checked apiType radio
  listeners,      \* TRUE once setupEventListeners has run
  clicks,         \* the number of clicks the user has made
  \* ---- history of the current run (observation only) ------------------
  run             \* what the current analysis run has sent and received

vars == << tab, dom, hasContainer, csPending, csI, csTimer, csLog,
           toContent, fromContent, toWorker, fromWorker, tabQueries,
           tabResults, apiCurrent, keepAliveInterval, timers, pings,
           wOps, http, storage, initPc, runPc, morePc, savePc, currentComments,
           currentPredictions, currentFilter, texts, commentsList,
           statistics, videoInfo, statusBar, loading, apiStatus, ui,
           listeners, clicks, run >>

pageVars   == << tab, dom, hasContainer >>
csVars     == << csPending, csI, csTimer, csLog >>
keepAliveVars == << keepAliveInterval, timers, pings >>
workerVars == << apiCurrent, keepAliveVars, wOps, http >>
popupData  == << currentComments, currentPredictions, currentFilter, texts,
                 commentsList, statistics, videoInfo >>
popupUi    == << statusBar, loading, apiStatus, ui, listeners >>
popupVars  == << initPc, runPc, morePc, savePc, popupData, popupUi >>

\* Everything but the content script and its two channels.
notContent == << pageVars, toWorker, fromWorker, tabQueries, tabResults,
                 workerVars, storage, popupVars, clicks, run >>

\* Everything but the worker and its two channels.
notWorker  == << pageVars, csVars, toContent, fromContent, tabQueries,
                 tabResults, storage, popupVars, clicks, run >>

-----------------------------------------------------------------------------
(* Bounds of the model.                                                    *)

MaxTextLen == 2   \* longest innerText of a scraped element (SpecExtract)
MaxNodes   == 3   \* most comment nodes of a page snapshot (SpecExtract)
MaxDom     == 2   \* most comment nodes of the page (Spec)
MaxPreds   == 2   \* longest predictions array of an API response
MaxClicks  == 2   \* most clicks of the user in one popup session
MaxPings   == 2   \* most keepalive lines logged (SpecWorker)

(* Program constants.                                                      *)

MaxScrolls == 3   \* scrollToLoadComments(3)
BatchLimit == 100 \* most comments POST /predict_batch accepts

-----------------------------------------------------------------------------
(* JavaScript values.                                                      *)

Null      == "null"
Undefined == "undefined"
None      == [none |-> TRUE]

\* obj[key], with `undefined` for a missing key.
Get(obj, key) == IF key \in DOMAIN obj THEN obj[key] ELSE Undefined

Has(obj, key) == key \in DOMAIN obj

EmptyObject == << >>

\* { ...a, ...b }
Spread(a, b) ==
  [ k \in (DOMAIN a) \cup (DOMAIN b) |-> IF k \in DOMAIN b THEN b[k] ELSE a[k] ]

\* The string "a", "ab" ... as the model writes innerText.
Chars == {" ", "a"}

Strings(n) == UNION { [1..k -> Chars] : k \in 0..n }

IsWhite(c) == c = " "

\* String.prototype.trim(): drops leading and trailing white space.
RECURSIVE TrimStart(_)
TrimStart(s) ==
  IF s = << >> THEN << >>
  ELSE IF IsWhite(Head(s)) THEN TrimStart(Tail(s))
  ELSE s

RECURSIVE TrimEnd(_)
TrimEnd(s) ==
  IF s = << >> THEN << >>
  ELSE IF IsWhite(s[Len(s)]) THEN TrimEnd(SubSeq(s, 1, Len(s) - 1))
  ELSE s

Trim(s) == TrimEnd(TrimStart(s))

-----------------------------------------------------------------------------
(* The page: a comment node holds the four elements the scraper queries;   *)
(* querySelector yields null for an element the node does not have.        *)

NoElem == [missing |-> TRUE]

Elem(t) == [innerText |-> t]

querySelector(node, sel) == node[sel]

IsElem(e) == Has(e, "innerText")

Node(text, author, likes, time) ==
  [ contentText |-> text, authorText |-> author,
    voteCount |-> likes, publishedTime |-> time ]

Anonyme == << "Anonyme" >>
Zero    == << "0" >>
Empty   == << >>

\* The test of line 39 left out: every node with a text element is kept.
keepTextAlways(text) == TRUE

\* content.js line 39: `if (text && text.length > 0)`.
keepText(text) == text # Empty /\ Len(text) > 0

\* content.js lines 40-46: the record pushed for the node at `index`.
commentRecord(index, text, author, likes, time) ==
  [ id |-> << "comment_", index >>, text |-> text, author |-> author,
    likes |-> likes, time |-> time ]

\* content.js lines 24-48: the body of the forEach callback; `comments` is
\* the array built so far, the result is the array after this node.
extractOne(comments, element, index) ==
  LET commentTextElement == querySelector(element, "contentText") IN
  IF IsElem(commentTextElement)
  THEN LET text          == Trim(commentTextElement.innerText)
           authorElement == querySelector(element, "authorText")
           author        == IF IsElem(authorElement)
                            THEN Trim(authorElement.innerText) ELSE Anonyme
           likesElement  == querySelector(element, "voteCount")
           likes         == IF IsElem(likesElement)
                            THEN Trim(likesElement.innerText) ELSE Zero
           timeElement   == querySelector(element, "publishedTime")
           time          == IF IsElem(timeElement)
                            THEN Trim(timeElement.innerText) ELSE Empty
       IN IF keepText(text)
          THEN Append(comments, commentRecord(index, text, author, likes, time))
          ELSE comments
  ELSE comments

\* content.js lines 11-56: forEach over the nodes, index counted from 0.
\* walk(lo, hi, comments) runs the callback on the nodes lo..hi in order,
\* first on the lower half of the range and then on the upper half (the
\* test of Len(lower) has the lower half computed before the upper starts).
extractComments(d) ==
  LET RECURSIVE walk(_, _, _)
      walk(lo, hi, comments) ==
        IF lo > hi THEN comments
        ELSE IF lo = hi THEN extractOne(comments, d[lo], lo - 1)
        ELSE LET mid   == (lo + hi) \div 2
                 lower == walk(lo, mid, comments)
             IN IF Len(lower) >= 0 THEN walk(mid + 1, hi, lower) ELSE lower
  IN walk(1, Len(d), << >>)

\* The page header elements read by getVideoInfo.
PageHeader == [ title |-> Elem(<< "a", " " >>), channel |-> NoElem,
                views |-> NoElem ]

\* content.js lines 86-97.
getVideoInfo(url) ==
  [ title   |-> IF IsElem(PageHeader.title)
                THEN Trim(PageHeader.title.innerText)
                ELSE << "Titre non disponible" >>,
    channel |-> IF IsElem(PageHeader.channel)
                THEN Trim(PageHeader.channel.innerText)
                ELSE << "Chaîne inconnue" >>,
    views   |-> IF IsElem(PageHeader.views)
                THEN Trim(PageHeader.views.innerText)
                ELSE Zero,
    url     |-> url ]

-----------------------------------------------------------------------------
(* The page the popup is opened on.                                        *)

UrlWatch == << "https://www.", "youtube.com/watch", "?v=x" >>
UrlOther == << "https://www.", "youtube.com/", "feed" >>

\* A test that every URL passes.
includesAnything(url, part) == Len(url) > 0

\* String.prototype.includes, on a URL written as a sequence of parts.
includes(url, part) == \E i \in 1..Len(url) : url[i] = part

\* chrome.tabs.query yields [tab]; None when the array is empty.
Tabs == { [id |-> 1, url |-> UrlWatch], [id |-> 2, url |-> UrlOther], None }

NodeGood  == Node(Elem(<< "a" >>), Elem(<< "a" >>), NoElem, NoElem)
NodeNoText == Node(NoElem, Elem(<< "a" >>), NoElem, NoElem)

\* The comment nodes a page of the model holds.
SysNodes == { NodeGood, NodeNoText }

SeqsUpTo(S, n) == UNION { [1..k -> S] : k \in 0..n }

-----------------------------------------------------------------------------
(* Content script (content.js).                                            *)

NewLog(action) ==
  [ action |-> action, container |-> hasContainer, scrolls |-> 0,
    pauses |-> 0, extracts |-> 0, responses |-> 0 ]

\* content.js lines 113-118 and 130-135: the success response.
successResponse(comments, info) ==
  [ success |-> TRUE, comments |-> comments, videoInfo |-> info,
    count |-> Len(comments) ]

Resolved(m, response) ==
  [ flow |-> m.flow, action |-> m.action, ok |-> TRUE, response |-> response ]

Rejected(m, message) ==
  [ flow |-> m.flow, action |-> m.action, ok |-> FALSE, error |-> message ]

\* content.js lines 105-118: the extractComments request is served at once.
ContentExtractComments(m) ==
  /\ m \in toContent
  /\ m.action = "extractComments"
  /\ LET comments == extractComments(dom)
         info     == getVideoInfo(tab.url)
     IN /\ fromContent' = fromContent \cup
                            { Resolved(m, successResponse(comments, info)) }
        /\ csLog' = [ NewLog(m.action) EXCEPT !.extracts = 1,
                        !.responses = 1 ]
  /\ toContent' = toContent \ {m}
  /\ UNCHANGED << csPending, csI, csTimer >>
  /\ UNCHANGED notContent

\* content.js lines 127-135: after the scrolling, extract once and respond.
\* `log` is the log of the request up to this point.
afterScroll(m, log) ==
  LET comments == extractComments(dom)
      info     == getVideoInfo(tab.url)
  IN /\ fromContent' = fromContent \cup
                         { Resolved(m, successResponse(comments, info)) }
     /\ csLog' = [ log EXCEPT !.extracts = @ + 1, !.responses = @ + 1 ]
     /\ csPending' = None
     /\ csTimer' = FALSE

\* content.js lines 74-77: one scrollIntoView, then the 1500 ms timer.
scrollOnce(m, log, i) ==
  /\ csLog' = [ log EXCEPT !.scrolls = @ + 1 ]
  /\ csPending' = m
  /\ csI' = i
  /\ csTimer' = TRUE
  /\ UNCHANGED fromContent

\* The loop test off by one.
loopContinuesOnceMore(i) == i <= MaxScrolls

\* content.js line 72: `i < maxScrolls`.
loopContinues(i) == i < MaxScrolls

\* The handler without the early return of lines 67-70: scrollIntoView of
\* null throws and the catch of lines 136-142 answers.
ContentScrollAndExtractNoReturn(m) ==
  /\ m \in toContent
  /\ m.action = "scrollAndExtract"
  /\ csPending = None
  /\ toContent' = toContent \ {m}
  /\ IF ~hasContainer
     THEN /\ fromContent' = fromContent \cup
               { Resolved(m, [ success |-> FALSE,
                               error |-> << "Cannot read properties of null" >> ]) }
          /\ csLog' = [ NewLog(m.action) EXCEPT !.responses = 1 ]
          /\ UNCHANGED << csPending, csI, csTimer >>
     ELSE IF loopContinues(0)
          THEN scrollOnce(m, NewLog(m.action), 0)
          ELSE afterScroll(m, NewLog(m.action)) /\ UNCHANGED csI
  /\ UNCHANGED notContent

\* content.js lines 120-146 with lines 61-77: the scrollAndExtract request
\* is served up to the first await of scrollToLoadComments.
ContentScrollAndExtract(m) ==
  /\ m \in toContent
  /\ m.action = "scrollAndExtract"
  /\ csPending = None
  /\ toContent' = toContent \ {m}
  /\ IF ~hasContainer
     THEN afterScroll(m, NewLog(m.action)) /\ UNCHANGED csI
     ELSE IF loopContinues(0)
          THEN scrollOnce(m, NewLog(m.action), 0)
          ELSE afterScroll(m, NewLog(m.action)) /\ UNCHANGED csI
  /\ UNCHANGED notContent

\* content.js lines 77-80 and 72: the timer fires; the loop goes on or ends.
ContentScrollTimer ==
  /\ csTimer
  /\ csPending # None
  /\ LET log == [ csLog EXCEPT !.pauses = @ + 1 ]
         i   == csI + 1
     IN IF loopContinues(i)
        THEN scrollOnce(csPending, log, i)
        ELSE afterScroll(csPending, log) /\ csI' = i
  /\ UNCHANGED toContent
  /\ UNCHANGED notContent

\* chrome.tabs.sendMessage rejects when no content script receives it
\* (popup.js lines 100-105 and 240-242 handle the rejection).
ContentUnreachable(m) ==
  /\ m \in toContent
  /\ toContent' = toContent \ {m}
  /\ fromContent' = fromContent \cup
                      { Rejected(m, << "Could not establish connection" >>) }
  /\ UNCHANGED csVars
  /\ UNCHANGED notContent

\* The page lazily loads one more comment node.
LazyLoad(n) ==
  /\ hasContainer
  /\ Len(dom) < MaxDom
  /\ dom' = Append(dom, n)
  /\ UNCHANGED << tab, hasContainer, csVars, toContent, fromContent, toWorker,
                  fromWorker, tabQueries, tabResults, workerVars, storage,
                  popupVars, clicks, run >>

-----------------------------------------------------------------------------
(* Background service worker.                                              *)

API_CONFIG ==
  [ local      |-> "http://localhost:8000",
    production |-> "https://douae8bz-youtube-sentiment-analyzer.hf.space" ]

\* Lines 39-41: API_CONFIG[API_CONFIG.current]; the key 'current' of
\* API_CONFIG holds the pointer itself.
getApiUrl(current) ==
  IF current = "current" THEN current ELSE Get(API_CONFIG, current)

\* A startKeepAlive without the test of line 19: every call sets a timer and
\* overwrites the handle of the one before.
startKeepAliveUnguarded(interval, live) ==
  [ interval |-> "interval", live |-> live + 1 ]

\* Lines 18-24, startKeepAlive: the handle and the number of running
\* interval timers after the call, given both before it.
startKeepAlive(interval, live) ==
  IF interval # Null THEN [ interval |-> interval, live |-> live ]
  ELSE [ interval |-> "interval", live |-> live + 1 ]

\* Lines 26-31, stopKeepAlive: clearInterval on the handle, if there is one.
stopKeepAlive(interval, live) ==
  IF interval # Null THEN [ interval |-> Null, live |-> live - 1 ]
  ELSE [ interval |-> interval, live |-> live ]

\* The worker's keepalive state becomes what a call came to.
keepAlive(after) ==
  /\ keepAliveInterval' = after.interval
  /\ timers' = after.live
  /\ UNCHANGED pings

\* The state of line 16 followed by the call of line 34.
keepAliveLoaded ==
  /\ keepAliveInterval = startKeepAlive(Null, 0).interval
  /\ timers = startKeepAlive(Null, 0).live
  /\ pings = 0

\* Response.ok
responseOk(status) == status \in 200..299

\* What a fetch can come to: a rejection (network error), or a response
\* with a status and a body that response.json() parses or not.
NetworkError  == [ kind |-> "network" ]
HttpStatus(st) == [ kind |-> "response", status |-> st ]
HttpBody(st, data) == [ kind |-> "response", status |-> st, json |-> data ]

JsonNull == [ jsonNull |-> TRUE ]

HealthDatas ==
  { [ status |-> "healthy", model_loaded |-> TRUE ],
    [ status |-> "unhealthy", model_loaded |-> FALSE ],
    [ message |-> "ok" ],
    JsonNull }

\* A 2xx or 5xx response without a JSON body, or with one of HealthDatas.
HealthOutcomes ==
  { NetworkError, HttpStatus(200), HttpStatus(503) }
    \cup { HttpBody(200, d) : d \in HealthDatas }
    \cup { HttpBody(503, d) : d \in { [ status |-> "healthy",
                                        model_loaded |-> TRUE ] } }

errorResult(message) == [ success |-> FALSE, error |-> message ]

healthError(message) ==
  [ success |-> FALSE, healthy |-> FALSE, error |-> message ]

httpError(status) == << "HTTP error! status: ", status >>

\* The error thrown by response.json() or by reading a field of null.
jsonError(outcome) ==
  IF ~Has(outcome, "json") THEN << "Unexpected token" >>
  ELSE << "Cannot read properties of null" >>

\* The body parses and is an object whose fields can be read.
readable(outcome) == Has(outcome, "json") /\ outcome.json # JsonNull

\* checkApiHealth throwing on a body whose status is not "healthy".
checkApiHealthStrict(outcome) ==
  IF outcome.kind = "network" THEN healthError(<< "Failed to fetch" >>)
  ELSE IF ~responseOk(outcome.status)
       THEN healthError(httpError(outcome.status))
  ELSE IF ~readable(outcome) THEN healthError(jsonError(outcome))
  ELSE IF Get(outcome.json, "status") # "healthy"
       THEN healthError(<< "API unhealthy" >>)
  ELSE [ success |-> TRUE, healthy |-> TRUE, data |-> outcome.json ]

\* checkApiHealth, lines 101-120: the result for what the fetch came to.
checkApiHealth(outcome) ==
  IF outcome.kind = "network" THEN healthError(<< "Failed to fetch" >>)
  ELSE IF ~responseOk(outcome.status)
       THEN healthError(httpError(outcome.status))
  ELSE IF ~readable(outcome) THEN healthError(jsonError(outcome))
  ELSE [ success |-> TRUE,
         healthy |-> Get(outcome.json, "status") = "healthy",
         data    |-> outcome.json ]

\* analyzeSentiment without the test of response.ok.
analyzeSentimentNoOkTest(outcome) ==
  IF outcome.kind = "network" THEN errorResult(<< "Failed to fetch" >>)
  ELSE IF ~Has(outcome, "json") THEN errorResult(jsonError(outcome))
  ELSE [ success |-> TRUE, data |-> outcome.json ]

\* analyzeSentiment, lines 63-81: the result for what the fetch came to.
\* (A null body is returned as data: nothing reads its fields here.)
analyzeSentiment(outcome) ==
  IF outcome.kind = "network" THEN errorResult(<< "Failed to fetch" >>)
  ELSE IF ~responseOk(outcome.status)
       THEN errorResult(httpError(outcome.status))
  ELSE IF ~Has(outcome, "json") THEN errorResult(jsonError(outcome))
  ELSE [ success |-> TRUE, data |-> outcome.json ]

\* Lines 126-136: wakeUp is answered at once.
WorkerWakeUp(m) ==
  /\ m \in toWorker
  /\ m.action = "wakeUp"
  /\ keepAlive(startKeepAlive(keepAliveInterval, timers))
  /\ toWorker' = toWorker \ {m}
  /\ LET reply == [ success |-> TRUE, message |-> "Service Worker actif" ]
     IN fromWorker' = fromWorker \cup { Resolved(m, reply) }
  /\ UNCHANGED << apiCurrent, wOps, http >>
  /\ UNCHANGED notWorker

\* The fetch of lines 53-61 or 94-99, not settled yet.
fetchRequest(m, method, path, body) ==
  [ flow |-> m.flow, action |-> m.action, method |-> method,
    url |-> << getApiUrl(apiCurrent), path >>, body |-> body,
    settled |-> None ]

\* Lines 126-130 and 138-150 with 46-61: the call runs up to its fetch.
WorkerAnalyzeSentiment(m) ==
  /\ m \in toWorker
  /\ m.action = "analyzeSentiment"
  /\ keepAlive(startKeepAlive(keepAliveInterval, timers))
  /\ toWorker' = toWorker \ {m}
  /\ wOps' = wOps \cup { [ flow |-> m.flow, action |-> m.action,
                           fetches |-> 1 ] }
  /\ http' = http \cup { fetchRequest(m, "POST", "/predict_batch",
                                      [ comments |-> m.comments ]) }
  /\ UNCHANGED << apiCurrent, fromWorker >>
  /\ UNCHANGED notWorker

\* Lines 126-130 and 152-164 with 87-99: the call runs up to its fetch.
WorkerCheckHealth(m) ==
  /\ m \in toWorker
  /\ m.action = "checkHealth"
  /\ keepAlive(startKeepAlive(keepAliveInterval, timers))
  /\ toWorker' = toWorker \ {m}
  /\ wOps' = wOps \cup { [ flow |-> m.flow, action |-> m.action,
                           fetches |-> 1 ] }
  /\ http' = http \cup { fetchRequest(m, "GET", "/health", None) }
  /\ run' = IF m.flow = "run"
            THEN [ run EXCEPT !.healthUrl = getApiUrl(apiCurrent) ]
            ELSE run
  /\ UNCHANGED << apiCurrent, fromWorker >>
  /\ UNCHANGED << pageVars, csVars, toContent, fromContent, tabQueries,
                  tabResults, storage, popupVars, clicks >>

\* The network answers the fetch `h`, or fails it.
FetchSettles(h, outcome) ==
  /\ h \in http
  /\ h.settled = None
  /\ http' = (http \ {h}) \cup { [ h EXCEPT !.settled = outcome ] }
  /\ UNCHANGED << apiCurrent, keepAliveVars, wOps, toWorker, fromWorker >>
  /\ UNCHANGED notWorker

\* The call `op` resumes after its fetch `h` settled: it returns `reply`
\* and the .then of the listener sends it.
resume(op, h, reply) ==
  /\ op \in wOps
  /\ h \in http
  /\ h.flow = op.flow /\ h.action = op.action
  /\ h.settled # None
  /\ wOps' = wOps \ {op}
  /\ http' = http \ {h}
  /\ fromWorker' = fromWorker \cup { Resolved(op, reply) }
  /\ UNCHANGED << apiCurrent, keepAliveVars, toWorker >>
  /\ UNCHANGED notWorker

\* Lines 101-120 and 155-158.
WorkerHealthSettled(op, h) ==
  /\ op.action = "checkHealth"
  /\ resume(op, h, checkApiHealth(h.settled))

\* What POST /predict_batch can answer.
PredPos == [ text |-> << "a" >>, label |-> 1, sentiment |-> "Positif",
             confidence |-> 90 ]
PredNeu == [ text |-> << "a" >>, label |-> 0, sentiment |-> "Neutre",
             confidence |-> 70 ]
PredNeg == [ text |-> << "a", "a" >>, label |-> -1, sentiment |-> "Négatif",
             confidence |-> 80 ]
PredBare == [ text |-> << "a" >>, label |-> 0 ]

\* The API answers k predictions, whatever the number of comments sent.
ApiPredictions(k) == [ i \in 1..k |-> IF i % 2 = 1 THEN PredPos ELSE PredNeg ]

StatsOf(ps) == [ total |-> Len(ps) ]

PredictDatas ==
  { [ predictions |-> ApiPredictions(k),
      statistics  |-> StatsOf(ApiPredictions(k)) ] : k \in 0..MaxPreds }
    \cup { [ predictions |-> ApiPredictions(k) ] : k \in 0..MaxPreds }
    \cup { [ statistics |-> StatsOf(<< >>) ], JsonNull }

PredictOutcomes ==
  { NetworkError, HttpStatus(200), HttpStatus(503) }
    \cup { HttpBody(200, d) : d \in PredictDatas }
    \cup { HttpBody(503, [ detail |-> "Model not loaded" ]) }

OutcomesOf(h) ==
  IF h.method = "GET" THEN HealthOutcomes ELSE PredictOutcomes

\* Lines 63-81 and 141-144.
WorkerAnalyzeSettled(op, h) ==
  /\ op.action = "analyzeSentiment"
  /\ resume(op, h, analyzeSentiment(h.settled))

\* chrome.runtime.sendMessage fails (chrome.runtime.lastError is set): the
\* promise of sendMessageToBackground rejects, popup.js lines 478-480.
WorkerUnreachable(m) ==
  /\ m \in toWorker
  /\ toWorker' = toWorker \ {m}
  /\ fromWorker' = fromWorker \cup
                     { Rejected(m, << "Could not establish connection" >>) }
  /\ UNCHANGED workerVars
  /\ UNCHANGED notWorker

\* Lines 126-130 and 166-171: switchApi stores request.apiType, whatever it
\* is, and answers with the URL it now points at.
WorkerSwitchApi(m) ==
  /\ m \in toWorker
  /\ m.action = "switchApi"
  /\ keepAlive(startKeepAlive(keepAliveInterval, timers))
  /\ apiCurrent' = m.apiType
  /\ toWorker' = toWorker \ {m}
  /\ LET reply == [ success |-> TRUE, apiUrl |-> getApiUrl(m.apiType) ]
     IN fromWorker' = fromWorker \cup { Resolved(m, reply) }
  /\ UNCHANGED << wOps, http >>
  /\ UNCHANGED notWorker

\* The actions the listener has a branch for, lines 132, 138, 152 and 166.
KnownActions == { "wakeUp", "analyzeSentiment", "checkHealth", "switchApi" }

\* An unknown action that is dropped without an answer.
WorkerUnknownActionSilent(m) ==
  /\ m \in toWorker
  /\ m.action \notin KnownActions
  /\ keepAlive(startKeepAlive(keepAliveInterval, timers))
  /\ toWorker' = toWorker \ {m}
  /\ UNCHANGED << apiCurrent, wOps, http, fromWorker >>
  /\ UNCHANGED notWorker

\* Lines 126-130 and 173-176: no branch matched request.action.
WorkerUnknownAction(m) ==
  /\ m \in toWorker
  /\ m.action \notin KnownActions
  /\ keepAlive(startKeepAlive(keepAliveInterval, timers))
  /\ toWorker' = toWorker \ {m}
  /\ LET reply == [ success |-> FALSE, error |-> "Action inconnue" ]
     IN fromWorker' = fromWorker \cup { Resolved(m, reply) }
  /\ UNCHANGED << apiCurrent, wOps, http >>
  /\ UNCHANGED notWorker

\* A set that replaces the whole stored object.
storageReplace(items) == storage' = items

\* chrome.storage.local.set(items): the keys of `items` are written, the
\* other keys are kept.
storageSet(items) == storage' = Spread(storage, items)

\* Everything but the worker's own variables and the storage.
notWorkerEvent == << pageVars, csVars, toContent, fromContent, toWorker,
                     fromWorker, tabQueries, tabResults, popupVars, clicks,
                     run >>

\* Lines 182-192: the extension was installed or updated.
OnInstalled ==
  /\ storageSet([ apiType |-> "local", darkMode |-> FALSE,
                  autoAnalyze |-> FALSE ])
  /\ keepAlive(startKeepAlive(keepAliveInterval, timers))
  /\ UNCHANGED << apiCurrent, wOps, http >>
  /\ UNCHANGED notWorkerEvent

\* Lines 197-200: the browser started.
OnStartup ==
  /\ keepAlive(startKeepAlive(keepAliveInterval, timers))
  /\ UNCHANGED << apiCurrent, wOps, http, storage >>
  /\ UNCHANGED notWorkerEvent

\* Lines 205-208: the suspend event stops the keepalive timer; the listener
\* does not look at the operations that are pending.
Suspend ==
  /\ keepAlive(stopKeepAlive(keepAliveInterval, timers))
  /\ UNCHANGED << apiCurrent, wOps, http, storage >>
  /\ UNCHANGED notWorkerEvent

\* Lines 20-22: the timer fires and logs its line; MaxPings bounds the log.
KeepAliveTick ==
  /\ timers > 0
  /\ pings < MaxPings
  /\ pings' = pings + 1
  /\ UNCHANGED << apiCurrent, keepAliveInterval, timers, wOps, http, storage >>
  /\ UNCHANGED notWorkerEvent

\* The host stops the idle worker and starts it again for the next event:
\* the script is evaluated anew, lines 9-16 and 34.
WorkerRestart ==
  /\ wOps = {} /\ http = {}
  /\ apiCurrent' = "local"
  /\ keepAlive(startKeepAlive(Null, 0))
  /\ UNCHANGED << wOps, http, storage >>
  /\ UNCHANGED notWorkerEvent

-----------------------------------------------------------------------------
(* Popup (popup.js): helpers.                                              *)

Msg(id)        == [ id |-> id ]
MsgN(id, n)    == [ id |-> id, n |-> n ]
MsgE(id, err)  == [ id |-> id, error |-> err ]

\* showStatus(message, type)
showStatus(message, type) == statusBar' = [ message |-> message, type |-> type ]

\* showLoading that leaves both buttons enabled.
showLoadingSpinnerOnly(show) == loading' = FALSE

\* showLoading(show): spinner shown, analyzeBtn and loadMoreBtn disabled.
showLoading(show) == loading' = show

\* sendMessageToBackground sending the message a second time.
sendMessageToBackgroundTwice(message) ==
  toWorker' = toWorker \cup
                { message, [ action |-> message.action, flow |-> message.flow,
                             again |-> TRUE ] }

\* sendMessageToBackground(message), popup.js lines 473-487.
sendMessageToBackground(message) == toWorker' = toWorker \cup { message }

\* comments[index], `undefined` spreading to nothing.
At(comments, i) == IF i \in 1..Len(comments) THEN comments[i] ELSE EmptyObject

\* popup.js lines 194-197: predictions.map((pred, index) => ...).
mergePredictions(comments, predictions) ==
  [ i \in 1..Len(predictions) |-> Spread(At(comments, i), predictions[i]) ]

\* The predicate with the labels of two filters exchanged.
keepPredictionSwapped(p, filter) ==
  IF filter = "positive" THEN Get(p, "sentiment") = "Positif"
  ELSE IF filter = "neutral" THEN Get(p, "sentiment") = "Négatif"
  ELSE IF filter = "negative" THEN Get(p, "sentiment") = "Neutre"
  ELSE TRUE

\* popup.js lines 289-294: the predicate of the filter.
keepPrediction(p, filter) ==
  IF filter = "positive" THEN Get(p, "sentiment") = "Positif"
  ELSE IF filter = "neutral" THEN Get(p, "sentiment") = "Neutre"
  ELSE IF filter = "negative" THEN Get(p, "sentiment") = "Négatif"
  ELSE TRUE

\* Array.prototype.filter
RECURSIVE filterArray(_, _)
filterArray(arr, filter) ==
  IF arr = << >> THEN << >>
  ELSE IF keepPrediction(Head(arr), filter)
       THEN << Head(arr) >> \o filterArray(Tail(arr), filter)
       ELSE filterArray(Tail(arr), filter)

\* popup.js lines 283-303: the records appended to #commentsList.
displayComments(predictions, filter) ==
  IF filter # "all" THEN filterArray(predictions, filter) ELSE predictions

Filters == { "all", "positive", "neutral", "negative" }

\* The history of the current analysis run.
NewRun(r) ==
  [ r EXCEPT !.active = TRUE, !.ended = "no", !.before = currentPredictions,
             !.trace = << >>, !.extraction = None, !.health = None,
             !.merged = FALSE, !.npreds = 0, !.healthUrl = Null ]

Sent(r, kind) == [ r EXCEPT !.trace = Append(@, [ ev |-> "send", kind |-> kind ]) ]
Got(r, kind)  == [ r EXCEPT !.trace = Append(@, [ ev |-> "recv", kind |-> kind ]) ]
Ended(r, how) == [ r EXCEPT !.active = FALSE, !.ended = how ]

-----------------------------------------------------------------------------
(* Popup: the DOMContentLoaded handler, popup.js lines 16-33.              *)

notPopupInit == << pageVars, csVars, toContent, fromContent, tabQueries,
                   tabResults, workerVars, runPc, morePc, savePc, popupData,
                   clicks >>

\* The handler without its wake-up: it goes on to loadSettings.
DOMContentLoadedNoWake ==
  /\ initPc = "start"
  /\ initPc' = "settings"
  /\ UNCHANGED << notPopupInit, toWorker, fromWorker, storage, popupUi, run >>

\* Lines 16-22: the handler starts and awaits the wake-up of the worker.
DOMContentLoaded ==
  /\ initPc = "start"
  /\ sendMessageToBackground([ action |-> "wakeUp", flow |-> "init" ])
  /\ run' = [ run EXCEPT !.woke = TRUE ]
  /\ initPc' = "wake"
  /\ UNCHANGED << notPopupInit, fromWorker, storage, popupUi >>

\* Lines 22-28: the wake-up settled (a rejection is only logged);
\* loadSettings awaits chrome.storage.local.get.
InitWakeSettled(r) ==
  /\ initPc = "wake"
  /\ r \in fromWorker /\ r.flow = "init" /\ r.action = "wakeUp"
  /\ fromWorker' = fromWorker \ {r}
  /\ initPc' = "settings"
  /\ UNCHANGED << notPopupInit, toWorker, storage, popupUi, run >>

\* Lines 389-401, then 29 and 426-431: the settings are applied and
\* checkApiStatus awaits the health check.
InitSettingsLoaded ==
  /\ initPc = "settings"
  /\ ui' = [ dark  |-> IF Has(storage, "darkMode") /\ storage.darkMode
                       THEN TRUE ELSE ui.dark,
             radio |-> IF Has(storage, "apiType")
                          /\ storage.apiType \in DOMAIN API_CONFIG
                       THEN storage.apiType ELSE ui.radio ]
  /\ sendMessageToBackground([ action |-> "checkHealth", flow |-> "init" ])
  /\ initPc' = "health"
  /\ UNCHANGED << notPopupInit, fromWorker, storage, statusBar, loading,
                  apiStatus, listeners, run >>

\* Lines 431-445, then 30: the status is shown, the listeners are installed.
InitHealthSettled(r) ==
  /\ initPc = "health"
  /\ r \in fromWorker /\ r.flow = "init" /\ r.action = "checkHealth"
  /\ fromWorker' = fromWorker \ {r}
  /\ apiStatus' = IF r.ok /\ r.response.success /\ r.response.healthy
                  THEN "connected" ELSE "disconnected"
  /\ listeners' = TRUE
  /\ initPc' = "done"
  /\ UNCHANGED << notPopupInit, toWorker, storage, statusBar, loading, ui,
                  run >>

-----------------------------------------------------------------------------
(* Popup: analyzeComments, popup.js lines 72-217.                          *)

notRun == << pageVars, csVars, workerVars, storage, initPc, morePc, savePc,
             currentFilter, apiStatus, ui, listeners >>

\* The early exit with a status of type info.
abortRunAsInfo(message) ==
  /\ showStatus(message, "info")
  /\ showLoading(FALSE)
  /\ runPc' = "idle"

\* An early exit that returns without showLoading(false).
abortRunLoading(message) ==
  /\ showStatus(message, "error")
  /\ UNCHANGED loading
  /\ runPc' = "idle"

\* An early exit: showStatus(message, 'error'); showLoading(false); return.
abortRun(message) ==
  /\ showStatus(message, "error")
  /\ showLoading(FALSE)
  /\ runPc' = "idle"

\* Lines 72-81: the click on analyzeBtn, up to the await of tabs.query.
\* A disabled button fires no click.
AnalyzeClick ==
  /\ listeners
  /\ ~loading
  /\ clicks < MaxClicks
  /\ clicks' = clicks + 1
  /\ showLoading(TRUE)
  /\ showStatus(Msg("Extraction des commentaires..."), "info")
  /\ tabQueries' = tabQueries \cup { [ flow |-> "run" ] }
  /\ runPc' = "tabQuery"
  /\ run' = Sent(NewRun(run), "tabQuery")
  /\ UNCHANGED << notRun, toContent, fromContent, toWorker, fromWorker,
                  tabResults, popupData >>

\* chrome.tabs.query answers with the active tab.
TabQueryAnswered(q) ==
  /\ q \in tabQueries
  /\ tabQueries' = tabQueries \ {q}
  /\ tabResults' = tabResults \cup { [ flow |-> q.flow, tab |-> tab ] }
  /\ UNCHANGED << pageVars, csVars, toContent, fromContent, toWorker,
                  fromWorker, workerVars, storage, popupVars, clicks, run >>

\* Lines 81-98: the tab is checked and the extraction is requested.
\* With no active tab, `tab.url` throws and lines 211-215 catch it.
AnalyzeTabResolved(r) ==
  /\ runPc = "tabQuery"
  /\ r \in tabResults /\ r.flow = "run"
  /\ tabResults' = tabResults \ {r}
  /\ IF r.tab = None
     THEN /\ abortRun(MsgE("Erreur: ", << "Cannot read properties of undefined" >>))
          /\ run' = Ended(Got(run, "tabQuery"), "error")
          /\ UNCHANGED toContent
     ELSE IF ~includes(r.tab.url, "youtube.com/watch")
     THEN /\ abortRun(Msg("Veuillez ouvrir une vidéo YouTube"))
          /\ run' = Ended(Got(run, "tabQuery"), "error")
          /\ UNCHANGED toContent
     ELSE /\ showStatus(Msg("Extraction des commentaires..."), "info")
          /\ toContent' = toContent \cup
               { [ action |-> "extractComments", flow |-> "run",
                   tabId |-> r.tab.id ] }
          /\ runPc' = "extract"
          /\ run' = Sent(Got(run, "tabQuery"), "extractComments")
          /\ UNCHANGED loading
  /\ UNCHANGED << notRun, fromContent, toWorker, fromWorker, tabQueries,
                  popupData, clicks >>

\* Line 131: currentComments.map(c => c.text)
textsOf(comments) == [ i \in 1..Len(comments) |-> comments[i].text ]

\* Lines 98-137: the extraction settled; the comments are stored and the
\* worker is woken up.
AnalyzeExtractSettled(r) ==
  /\ runPc = "extract"
  /\ r \in fromContent /\ r.flow = "run"
  /\ fromContent' = fromContent \ {r}
  /\ IF ~r.ok
     THEN /\ abortRun(Msg("Le content script n'a pas répondu"))
          /\ run' = Ended(Got(run, "extractComments"), "error")
          /\ UNCHANGED << toWorker, currentComments, videoInfo, texts >>
     ELSE IF ~r.response.success
     THEN /\ abortRun(Msg("Erreur lors de l'extraction"))
          /\ run' = Ended([ Got(run, "extractComments") EXCEPT
                              !.extraction = r.response ], "error")
          /\ UNCHANGED << toWorker, currentComments, videoInfo, texts >>
     ELSE /\ currentComments' = r.response.comments
          /\ videoInfo' = IF Has(r.response, "videoInfo")
                          THEN r.response.videoInfo ELSE videoInfo
          /\ IF Len(r.response.comments) = 0
             THEN /\ abortRun(Msg("Aucun commentaire trouvé"))
                  /\ run' = Ended([ Got(run, "extractComments") EXCEPT
                                      !.extraction = r.response ], "error")
                  /\ UNCHANGED << toWorker, texts >>
             ELSE /\ showStatus(MsgN("Analyse de n commentaires...",
                                     Len(r.response.comments)), "info")
                  /\ texts' = textsOf(r.response.comments)
                  /\ sendMessageToBackground(
                       [ action |-> "wakeUp", flow |-> "run" ])
                  /\ runPc' = "wake"
                  /\ run' = [ Sent(Got(run, "extractComments"), "wakeUp")
                                EXCEPT !.extraction = r.response,
                                       !.woke = TRUE ]
                  /\ UNCHANGED loading
  /\ UNCHANGED << notRun, toContent, fromWorker, tabQueries, tabResults,
                  currentPredictions, commentsList, statistics, clicks >>

\* Lines 137-149: the wake-up settled (a rejection is only logged); the
\* health check is requested.
AnalyzeWakeSettled(r) ==
  /\ runPc = "wake"
  /\ r \in fromWorker /\ r.flow = "run" /\ r.action = "wakeUp"
  /\ fromWorker' = fromWorker \ {r}
  /\ showStatus(Msg("Vérification de l'API..."), "info")
  /\ sendMessageToBackground([ action |-> "checkHealth", flow |-> "run" ])
  /\ runPc' = "health"
  /\ run' = Sent(Got(run, "wakeUp"), "checkHealth")
  /\ UNCHANGED << notRun, toContent, fromContent, tabQueries, tabResults,
                  popupData, loading, clicks >>

\* The test of line 158 without its second operand.
apiUnavailableNoHealthy(health) == ~health.success

\* Line 158: `!health.success || !health.healthy`.
apiUnavailable(health) == ~health.success \/ ~health.healthy

\* Lines 149-176: the health check settled; the batch is sent.
AnalyzeHealthSettled(r) ==
  /\ runPc = "health"
  /\ r \in fromWorker /\ r.flow = "run" /\ r.action = "checkHealth"
  /\ fromWorker' = fromWorker \ {r}
  /\ IF ~r.ok
     THEN /\ abortRun(Msg("Impossible de contacter l'API"))
          /\ run' = Ended(Got(run, "checkHealth"), "error")
          /\ UNCHANGED toWorker
     ELSE IF apiUnavailable(r.response)
     THEN /\ abortRun(Msg("API indisponible"))
          /\ run' = Ended([ Got(run, "checkHealth") EXCEPT
                              !.health = r.response ], "error")
          /\ UNCHANGED toWorker
     ELSE /\ showStatus(MsgN("Analyse en cours (n commentaires)...",
                             Len(texts)), "info")
          /\ sendMessageToBackground(
               [ action |-> "analyzeSentiment", flow |-> "run",
                 comments |-> texts ])
          /\ runPc' = "analyze"
          /\ run' = [ Sent(Got(run, "checkHealth"), "analyzeSentiment")
                        EXCEPT !.health = r.response ]
          /\ UNCHANGED loading
  /\ UNCHANGED << notRun, toContent, fromContent, tabQueries, tabResults,
                  popupData, clicks >>

\* Lines 194-197 can run: `analysisResult.data.predictions.map` throws when
\* data is null or has no predictions.
canMerge(data) == data # JsonNull /\ Has(data, "predictions")

\* Line 203 with 259-281: displayStatistics(undefined) throws.
canDisplayStatistics(data) == Has(data, "statistics")

\* Lines 173-217: the classification settled; the results are merged with
\* the scraped comments and rendered.  An exception thrown on the way is
\* caught by lines 211-215.
AnalyzeResultSettled(r) ==
  /\ runPc = "analyze"
  /\ r \in fromWorker /\ r.flow = "run" /\ r.action = "analyzeSentiment"
  /\ fromWorker' = fromWorker \ {r}
  /\ runPc' = "idle"
  /\ showLoading(FALSE)
  /\ IF ~r.ok
     THEN /\ showStatus(MsgE("Erreur lors de l'analyse: ", r.error), "error")
          /\ run' = Ended(Got(run, "analyzeSentiment"), "error")
          /\ UNCHANGED << currentPredictions, commentsList, statistics >>
     ELSE IF ~r.response.success
     THEN /\ showStatus(MsgE("Erreur: ", r.response.error), "error")
          /\ run' = Ended(Got(run, "analyzeSentiment"), "error")
          /\ UNCHANGED << currentPredictions, commentsList, statistics >>
     ELSE IF ~canMerge(r.response.data)
     THEN /\ showStatus(MsgE("Erreur: ", << "Cannot read properties" >>),
                        "error")
          /\ run' = Ended(Got(run, "analyzeSentiment"), "error")
          /\ UNCHANGED << currentPredictions, commentsList, statistics >>
     ELSE LET merged == mergePredictions(currentComments,
                                         r.response.data.predictions)
          IN /\ currentPredictions' = merged
             /\ IF ~canDisplayStatistics(r.response.data)
                THEN /\ showStatus(MsgE("Erreur: ",
                                        << "Cannot read properties" >>),
                                   "error")
                     /\ run' = Ended([ Got(run, "analyzeSentiment") EXCEPT
                                         !.merged = TRUE,
                                         !.npreds = Len(merged) ], "error")
                     /\ UNCHANGED << commentsList, statistics >>
                ELSE /\ statistics' = r.response.data.statistics
                     /\ commentsList' = displayComments(merged, currentFilter)
                     /\ showStatus(MsgN("n commentaires analysés!",
                                        Len(merged)), "success")
                     /\ run' = Ended([ Got(run, "analyzeSentiment") EXCEPT
                                         !.merged = TRUE,
                                         !.npreds = Len(merged) ], "success")
  /\ UNCHANGED << notRun, toContent, fromContent, toWorker, tabQueries,
                  tabResults, currentComments, texts, videoInfo, clicks >>

-----------------------------------------------------------------------------
(* Popup: loadMoreComments, popup.js lines 222-246.                        *)

notMore == << pageVars, csVars, workerVars, storage, initPc, runPc,
              savePc, popupData, apiStatus, ui, listeners, toWorker, fromWorker,
              run >>

\* Lines 222-228: the click on loadMoreBtn, up to the await of tabs.query.
LoadMoreClick ==
  /\ listeners
  /\ ~loading
  /\ clicks < MaxClicks
  /\ clicks' = clicks + 1
  /\ showLoading(TRUE)
  /\ showStatus(Msg("Chargement de plus de commentaires..."), "info")
  /\ tabQueries' = tabQueries \cup { [ flow |-> "more" ] }
  /\ morePc' = "tabQuery"
  /\ UNCHANGED << notMore, toContent, fromContent, tabResults >>

\* Lines 228-232: scrollAndExtract is sent to the active tab.  With no
\* active tab, `tab.id` throws: lines 240-244.
LoadMoreTabResolved(r) ==
  /\ morePc = "tabQuery"
  /\ r \in tabResults /\ r.flow = "more"
  /\ tabResults' = tabResults \ {r}
  /\ IF r.tab = None
     THEN /\ showStatus(MsgE("Erreur: ",
                             << "Cannot read properties of undefined" >>),
                        "error")
          /\ showLoading(FALSE)
          /\ morePc' = "idle"
          /\ UNCHANGED toContent
     ELSE /\ toContent' = toContent \cup
               { [ action |-> "scrollAndExtract", flow |-> "more",
                   tabId |-> r.tab.id ] }
          /\ morePc' = "scroll"
          /\ UNCHANGED << statusBar, loading >>
  /\ UNCHANGED << notMore, fromContent, tabQueries, clicks >>

\* The end of loadMoreComments keeping the comments of the response.
LoadMoreSettledKeeps(r) ==
  /\ morePc = "scroll"
  /\ r \in fromContent /\ r.flow = "more"
  /\ fromContent' = fromContent \ {r}
  /\ IF ~r.ok
     THEN showStatus(MsgE("Erreur: ", r.error), "error")
     ELSE IF r.response.success
     THEN showStatus(MsgN("n commentaires chargés. Cliquez sur Analyser.",
                          r.response.count), "success")
     ELSE showStatus(Msg("Erreur lors du chargement"), "error")
  /\ currentComments' = IF r.ok /\ r.response.success
                        THEN r.response.comments ELSE currentComments
  /\ showLoading(FALSE)
  /\ morePc' = "idle"
  /\ UNCHANGED << pageVars, csVars, workerVars, storage, initPc, runPc,
                  savePc, currentPredictions, currentFilter, texts,
                  commentsList, statistics, videoInfo, apiStatus, ui,
                  listeners, toWorker, fromWorker, run, toContent,
                  tabQueries, tabResults, clicks >>

\* Lines 230-245: the request settled; the count is shown.
LoadMoreSettled(r) ==
  /\ morePc = "scroll"
  /\ r \in fromContent /\ r.flow = "more"
  /\ fromContent' = fromContent \ {r}
  /\ IF ~r.ok
     THEN showStatus(MsgE("Erreur: ", r.error), "error")
     ELSE IF r.response.success
     THEN showStatus(MsgN("n commentaires chargés. Cliquez sur Analyser.",
                          r.response.count), "success")
     ELSE showStatus(Msg("Erreur lors du chargement"), "error")
  /\ showLoading(FALSE)
  /\ morePc' = "idle"
  /\ UNCHANGED << notMore, toContent, tabQueries, tabResults, clicks >>

-----------------------------------------------------------------------------
(* Popup: filterComments, popup.js lines 336-345.                          *)

\* filterComments asking the worker for a new classification.
filterCommentsRefetch(filter) ==
  /\ listeners
  /\ statistics # None
  /\ clicks < MaxClicks
  /\ clicks' = clicks + 1
  /\ currentFilter' = filter
  /\ commentsList' = displayComments(currentPredictions, filter)
  /\ sendMessageToBackground([ action |-> "analyzeSentiment",
                               flow |-> "filter", comments |-> texts ])
  /\ UNCHANGED << pageVars, csVars, toContent, fromContent,
                  fromWorker, tabQueries, tabResults, workerVars, storage,
                  initPc, runPc, morePc, savePc, currentComments,
                  currentPredictions, texts, statistics, videoInfo,
                  popupUi, run >>

filterComments(filter) ==
  /\ listeners
  /\ statistics # None
  /\ clicks < MaxClicks
  /\ clicks' = clicks + 1
  /\ currentFilter' = filter
  /\ commentsList' = displayComments(currentPredictions, filter)
  /\ UNCHANGED << pageVars, csVars, toContent, fromContent, toWorker,
                  fromWorker, tabQueries, tabResults, workerVars, storage,
                  initPc, runPc, morePc, savePc, currentComments,
                  currentPredictions, texts, statistics, videoInfo,
                  popupUi, run >>

-----------------------------------------------------------------------------
(* Popup: the settings, popup.js lines 403-424.                            *)

notSettings == << pageVars, csVars, toContent, fromContent, tabQueries,
                  tabResults, workerVars, initPc, runPc, morePc, popupData,
                  loading, listeners, run >>

\* The values of the apiType radio buttons of the settings dialog.
RadioValues == DOMAIN API_CONFIG

\* Lines 403-406: the user checks the radio `apiType` and clicks on
\* saveSettings; the value is stored.  One save at a time: the dialog is
\* open until the save has hidden it.
SaveSettingsClick(apiType) ==
  /\ listeners
  /\ savePc = "idle"
  /\ clicks < MaxClicks
  /\ clicks' = clicks + 1
  /\ ui' = [ ui EXCEPT !.radio = apiType ]
  /\ storageSet([ apiType |-> apiType ])
  /\ savePc' = "stored"
  /\ UNCHANGED << notSettings, toWorker, fromWorker, statusBar, apiStatus >>

\* Lines 406-411: the value is stored; switchApi is sent to the worker.
SaveSettingsStored ==
  /\ savePc = "stored"
  /\ sendMessageToBackground([ action |-> "switchApi", flow |-> "save",
                               apiType |-> ui.radio ])
  /\ savePc' = "switch"
  /\ UNCHANGED << notSettings, fromWorker, storage, statusBar, apiStatus,
                  ui, clicks >>

\* Lines 408-416 with 426-431: the worker answered; the status is shown and
\* checkApiStatus asks for the health of the API.  A rejection ends
\* saveSettings with an exception nobody catches.
SaveSwitchSettled(r) ==
  /\ savePc = "switch"
  /\ r \in fromWorker /\ r.flow = "save" /\ r.action = "switchApi"
  /\ fromWorker' = fromWorker \ {r}
  /\ IF ~r.ok
     THEN /\ savePc' = "idle"
          /\ UNCHANGED << toWorker, statusBar >>
     ELSE /\ showStatus(Msg("Paramètres sauvegardés"), "success")
          /\ sendMessageToBackground([ action |-> "checkHealth",
                                       flow |-> "save" ])
          /\ savePc' = "health"
  /\ UNCHANGED << notSettings, storage, apiStatus, ui, clicks >>

\* Lines 431-445: checkApiStatus shows the answer.
SaveHealthSettled(r) ==
  /\ savePc = "health"
  /\ r \in fromWorker /\ r.flow = "save" /\ r.action = "checkHealth"
  /\ fromWorker' = fromWorker \ {r}
  /\ apiStatus' = IF r.ok /\ r.response.success /\ r.response.healthy
                  THEN "connected" ELSE "disconnected"
  /\ savePc' = "idle"
  /\ UNCHANGED << notSettings, toWorker, storage, statusBar, ui, clicks >>

\* Lines 419-424: the class is toggled and the new value is stored.
toggleDarkMode ==
  /\ listeners
  /\ clicks < MaxClicks
  /\ clicks' = clicks + 1
  /\ LET isDark == ~ui.dark
     IN /\ ui' = [ ui EXCEPT !.dark = isDark ]
        /\ storageSet([ darkMode |-> isDark ])
  /\ UNCHANGED << notSettings, toWorker, fromWorker, savePc, statusBar,
                  apiStatus >>

\* The values a switchApi message can carry: the worker takes
\* request.apiType as it comes (part_001 line 167).
ApiTypes == RadioValues \cup { "staging", "current" }

\* An extension page sends {action:'switchApi', apiType} to the worker.
SwitchApiMessage(apiType) ==
  /\ clicks < MaxClicks
  /\ clicks' = clicks + 1
  /\ sendMessageToBackground([ action |-> "switchApi", flow |-> "page",
                               apiType |-> apiType ])
  /\ UNCHANGED << notSettings, fromWorker, storage, savePc, statusBar,
                  apiStatus, ui >>

\* The page takes the worker's answer.
SwitchApiAnswered(r) ==
  /\ r \in fromWorker /\ r.flow = "page"
  /\ fromWorker' = fromWorker \ {r}
  /\ UNCHANGED << notSettings, toWorker, storage, savePc, statusBar,
                  apiStatus, ui, clicks >>

\* The requests an extension page can send, known to the listener or not;
\* a request without an action has request.action undefined.
PageRequests ==
  { [ action |-> "wakeUp" ], [ action |-> "checkHealth" ],
    [ action |-> "analyzeSentiment", comments |-> << << "a" >> >> ],
    [ action |-> "ping" ], [ action |-> Undefined ] }
    \cup { [ action |-> "switchApi", apiType |-> t ] : t \in ApiTypes }

\* What the page has sent and not yet got the answer of.
PageInFlight ==
  { m \in toWorker \cup wOps \cup fromWorker : m.flow = "page" }

\* An extension page sends `request` to the worker, one request at a time.
PageMessage(request) ==
  /\ clicks < MaxClicks
  /\ PageInFlight = {}
  /\ clicks' = clicks + 1
  /\ sendMessageToBackground(Spread(request, [ flow |-> "page" ]))
  /\ UNCHANGED << notSettings, fromWorker, storage, savePc, statusBar,
                  apiStatus, ui >>

-----------------------------------------------------------------------------
(* The extension after it was installed and the popup was opened.          *)

InitRun ==
  [ woke |-> FALSE, active |-> FALSE, ended |-> "no", before |-> << >>,
    trace |-> << >>, extraction |-> None, health |-> None,
    merged |-> FALSE, npreds |-> 0, healthUrl |-> Null ]

InitExtension ==
  /\ csPending = None /\ csI = 0 /\ csTimer = FALSE
  /\ csLog = [ NewLog("none") EXCEPT !.container = FALSE ]
  /\ toContent = {} /\ fromContent = {} /\ toWorker = {} /\ fromWorker = {}
  /\ tabQueries = {} /\ tabResults = {}
  /\ apiCurrent = "local"
  /\ keepAliveLoaded
  /\ wOps = {} /\ http = {}
  /\ storage = [ apiType |-> "local", darkMode |-> FALSE,
                 autoAnalyze |-> FALSE ]
  /\ initPc = "start" /\ runPc = "idle" /\ morePc = "idle"
  /\ savePc = "idle"
  /\ currentComments = << >> /\ currentPredictions = << >>
  /\ currentFilter = "all" /\ texts = << >> /\ commentsList = << >>
  /\ statistics = None /\ videoInfo = None
  /\ statusBar = [ message |-> Msg(""), type |-> "info" ]
  /\ loading = FALSE
  /\ apiStatus = "unknown"
  /\ ui = [ dark |-> FALSE, radio |-> "local" ]
  /\ listeners = FALSE
  /\ clicks = 0
  /\ run = InitRun

\* The comment nodes live in the comments container of a watch page.
Init ==
  /\ tab \in Tabs
  /\ hasContainer \in BOOLEAN
  /\ dom \in SeqsUpTo(SysNodes, MaxDom)
  /\ hasContainer => tab # None /\ includes(tab.url, "youtube.com/watch")
  /\ ~hasContainer => dom = << >>
  /\ InitExtension

Next ==
  \/ DOMContentLoaded
  \/ \E r \in fromWorker : InitWakeSettled(r)
  \/ InitSettingsLoaded
  \/ \E r \in fromWorker : InitHealthSettled(r)
  \/ AnalyzeClick
  \/ \E q \in tabQueries : TabQueryAnswered(q)
  \/ \E r \in tabResults : AnalyzeTabResolved(r)
  \/ \E r \in fromContent : AnalyzeExtractSettled(r)
  \/ \E r \in fromWorker : AnalyzeWakeSettled(r)
  \/ \E r \in fromWorker : AnalyzeHealthSettled(r)
  \/ \E r \in fromWorker : AnalyzeResultSettled(r)
  \/ LoadMoreClick
  \/ \E r \in tabResults : LoadMoreTabResolved(r)
  \/ \E r \in fromContent : LoadMoreSettled(r)
  \/ \E f \in Filters : filterComments(f)
  \/ \E m \in toContent : ContentExtractComments(m)
  \/ \E m \in toContent : ContentScrollAndExtract(m)
  \/ ContentScrollTimer
  \/ \E m \in toContent : ContentUnreachable(m)
  \/ \E n \in SysNodes : LazyLoad(n)
  \/ \E m \in toWorker : WorkerWakeUp(m)
  \/ \E m \in toWorker : WorkerCheckHealth(m)
  \/ \E m \in toWorker : WorkerAnalyzeSentiment(m)
  \/ \E h \in http : \E o \in OutcomesOf(h) : FetchSettles(h, o)
  \/ \E op \in wOps, h \in http : WorkerHealthSettled(op, h)
  \/ \E op \in wOps, h \in http : WorkerAnalyzeSettled(op, h)
  \/ \E m \in toWorker : WorkerUnreachable(m)

Spec == Init /\ [][Next]_vars

\* The browser, the content script, the worker and the network answer
\* what was sent to them.
Answering ==
  \/ \E q \in tabQueries : TabQueryAnswered(q)
  \/ \E m \in toContent : ContentExtractComments(m)
  \/ \E m \in toContent : ContentScrollAndExtract(m)
  \/ ContentScrollTimer
  \/ \E m \in toContent : ContentUnreachable(m)
  \/ \E m \in toWorker : WorkerWakeUp(m)
  \/ \E m \in toWorker : WorkerCheckHealth(m)
  \/ \E m \in toWorker : WorkerAnalyzeSentiment(m)
  \/ \E h \in http : \E o \in OutcomesOf(h) : FetchSettles(h, o)
  \/ \E op \in wOps, h \in http : WorkerHealthSettled(op, h)
  \/ \E op \in wOps, h \in http : WorkerAnalyzeSettled(op, h)
  \/ \E m \in toWorker : WorkerUnreachable(m)

\* The popup's event loop runs the continuation of a settled await.
Continuing ==
  \/ \E r \in fromWorker : InitWakeSettled(r)
  \/ InitSettingsLoaded
  \/ \E r \in fromWorker : InitHealthSettled(r)
  \/ \E r \in tabResults : AnalyzeTabResolved(r)
  \/ \E r \in fromContent : AnalyzeExtractSettled(r)
  \/ \E r \in fromWorker : AnalyzeWakeSettled(r)
  \/ \E r \in fromWorker : AnalyzeHealthSettled(r)
  \/ \E r \in fromWorker : AnalyzeResultSettled(r)
  \/ \E r \in tabResults : LoadMoreTabResolved(r)
  \/ \E r \in fromContent : LoadMoreSettled(r)

\* Spec with every request answered in the end and every settled await
\* resumed; the user and the page are free to do nothing.
SpecLive == Spec /\ WF_vars(Answering) /\ WF_vars(Continuing)

-----------------------------------------------------------------------------
(* SpecExtract: extractComments over every page snapshot of the bounds.    *)
(* The popup has asked for the extraction; the content script serves it.   *)

MaxShown == 3     \* most predictions held by the popup (SpecFilter)

FullNode == Node(Elem(<< "a" >>), Elem(<< " ", "a" >>), Elem(<< "a" >>),
                 Elem(<< "a" >>))

SnapshotNodes ==
  { Node(NoElem, NoElem, NoElem, NoElem), FullNode }
    \cup { Node(Elem(t), NoElem, NoElem, NoElem) : t \in Strings(MaxTextLen) }

WatchTab == [ id |-> 1, url |-> UrlWatch ]

PopupReady ==
  /\ csPending = None /\ csI = 0 /\ csTimer = FALSE
  /\ csLog = [ NewLog("none") EXCEPT !.container = FALSE ]
  /\ fromContent = {} /\ toWorker = {} /\ fromWorker = {}
  /\ tabQueries = {} /\ tabResults = {}
  /\ apiCurrent = "local"
  /\ keepAliveLoaded
  /\ wOps = {} /\ http = {}
  /\ storage = [ apiType |-> "local", darkMode |-> FALSE,
                 autoAnalyze |-> FALSE ]
  /\ initPc = "done" /\ morePc = "idle" /\ savePc = "idle"
  /\ currentComments = << >>
  /\ texts = << >>
  /\ videoInfo = None
  /\ apiStatus = "connected"
  /\ ui = [ dark |-> FALSE, radio |-> "local" ]
  /\ listeners = TRUE

InitExtract ==
  /\ tab = WatchTab
  /\ hasContainer = TRUE
  /\ dom \in SeqsUpTo(SnapshotNodes, MaxNodes)
  /\ PopupReady
  /\ toContent = { [ action |-> "extractComments", flow |-> "run",
                     tabId |-> 1 ] }
  /\ runPc = "extract"
  /\ currentPredictions = << >> /\ currentFilter = "all"
  /\ commentsList = << >> /\ statistics = None
  /\ statusBar = [ message |-> Msg("Extraction des commentaires..."),
                   type |-> "info" ]
  /\ loading = TRUE
  /\ clicks = 1
  /\ run = [ Sent(Got(Sent(NewRun(InitRun), "tabQuery"), "tabQuery"),
                  "extractComments") EXCEPT !.woke = TRUE,
                                            !.before = << >> ]

NextExtract == \E m \in toContent : ContentExtractComments(m)

SpecExtract == InitExtract /\ [][NextExtract]_vars

-----------------------------------------------------------------------------
(* SpecFilter: filterComments over every prediction array of the bounds.   *)
(* An analysis run has succeeded; the user clicks the filter buttons.      *)

AllPreds == { PredPos, PredNeu, PredNeg, PredBare }

\* The records extractComments yields for n well-formed nodes.
CommentsN(n) ==
  [ i \in 1..n |-> commentRecord(i - 1, << "a" >>, Anonyme, Zero, Empty) ]

InitFilter ==
  /\ tab = WatchTab
  /\ hasContainer = TRUE
  /\ dom = << >>
  /\ PopupReady
  /\ toContent = {}
  /\ runPc = "idle"
  /\ \E ps \in SeqsUpTo(AllPreds, MaxShown) :
       /\ currentPredictions = mergePredictions(CommentsN(Len(ps)), ps)
       /\ commentsList = displayComments(currentPredictions, "all")
       /\ statistics = StatsOf(ps)
       /\ statusBar = [ message |-> MsgN("n commentaires analysés!", Len(ps)),
                        type |-> "success" ]
  /\ currentFilter = "all"
  /\ loading = FALSE
  /\ clicks = 1
  /\ run = InitRun

NextFilter == \E f \in Filters : filterComments(f)

SpecFilter == InitFilter /\ [][NextFilter]_vars

-----------------------------------------------------------------------------
(* SpecSettings: the popup's initialisation and settings dialog, the       *)
(* switchApi message and the life cycle of the worker.                     *)

NextSettings ==
  \/ DOMContentLoaded
  \/ \E r \in fromWorker : InitWakeSettled(r)
  \/ InitSettingsLoaded
  \/ \E r \in fromWorker : InitHealthSettled(r)
  \/ \E m \in toWorker : WorkerWakeUp(m)
  \/ \E m \in toWorker : WorkerCheckHealth(m)
  \/ \E h \in http : \E o \in OutcomesOf(h) : FetchSettles(h, o)
  \/ \E op \in wOps, h \in http : WorkerHealthSettled(op, h)
  \/ \E m \in toWorker : WorkerUnreachable(m)
  \/ \E t \in RadioValues : SaveSettingsClick(t)
  \/ SaveSettingsStored
  \/ \E r \in fromWorker : SaveSwitchSettled(r)
  \/ \E r \in fromWorker : SaveHealthSettled(r)
  \/ toggleDarkMode
  \/ \E t \in ApiTypes : SwitchApiMessage(t)
  \/ \E r \in fromWorker : SwitchApiAnswered(r)
  \/ \E m \in toWorker : WorkerSwitchApi(m)
  \/ OnInstalled
  \/ OnStartup
  \/ Suspend
  \/ WorkerRestart

\* The popup is opened on a watch page that shows one comment.
InitSettings ==
  /\ tab = WatchTab
  /\ hasContainer = TRUE
  /\ dom = << NodeGood >>
  /\ InitExtension

SpecSettings == InitSettings /\ [][NextSettings]_vars

-----------------------------------------------------------------------------
(* SpecBatch: pages that show one comment, as many comments as the batch   *)
(* endpoint accepts, and one more.                                         *)

PageSizes == { 1, BatchLimit, BatchLimit + 1 }

InitBatch ==
  /\ tab = WatchTab
  /\ hasContainer = TRUE
  /\ dom \in { [ i \in 1..n |-> NodeGood ] : n \in PageSizes }
  /\ InitExtension

SpecBatch == InitBatch /\ [][Next]_vars

-----------------------------------------------------------------------------
(* An analysis run while the user saves the settings.                      *)

NextRace ==
  \/ Next
  \/ \E t \in RadioValues : SaveSettingsClick(t)
  \/ SaveSettingsStored
  \/ \E r \in fromWorker : SaveSwitchSettled(r)
  \/ \E r \in fromWorker : SaveHealthSettled(r)
  \/ \E m \in toWorker : WorkerSwitchApi(m)

SpecRace == InitSettings /\ [][NextRace]_vars

-----------------------------------------------------------------------------
(* The worker alone: the popup opens while an extension page sends it      *)
(* requests of every kind and the host's events occur.                     *)

NextWorker ==
  \/ DOMContentLoaded
  \/ \E r \in fromWorker : InitWakeSettled(r)
  \/ InitSettingsLoaded
  \/ \E r \in fromWorker : InitHealthSettled(r)
  \/ \E q \in PageRequests : PageMessage(q)
  \/ \E r \in fromWorker : SwitchApiAnswered(r)
  \/ \E m \in toWorker : WorkerWakeUp(m)
  \/ \E m \in toWorker : WorkerSwitchApi(m)
  \/ \E m \in toWorker : WorkerCheckHealth(m)
  \/ \E m \in toWorker : WorkerAnalyzeSentiment(m)
  \/ \E m \in toWorker : WorkerUnknownAction(m)
  \/ \E h \in http : \E o \in OutcomesOf(h) : FetchSettles(h, o)
  \/ \E op \in wOps, h \in http : WorkerHealthSettled(op, h)
  \/ \E op \in wOps, h \in http : WorkerAnalyzeSettled(op, h)
  \/ OnInstalled
  \/ OnStartup
  \/ Suspend
  \/ WorkerRestart
  \/ KeepAliveTick

SpecWorker == InitSettings /\ [][NextWorker]_vars

-----------------------------------------------------------------------------
(* Properties.                                                             *)

Min(a, b) == IF a <= b THEN a ELSE b

\* A node with a text element whose text holds a character that is not
\* white space; a node without a text element.
WellFormed(node) ==
  /\ "innerText" \in DOMAIN node.contentText
  /\ \E i \in 1..Len(node.contentText.innerText) :
       node.contentText.innerText[i] # " "

MissingText(node) == "innerText" \notin DOMAIN node.contentText

ExtractionReplies ==
  { r \in fromContent : r.ok /\ r.action = "extractComments" }

\* C1: for a page snapshot with N nodes that have a non-empty text element
\* (a text with a character other than white space) and M nodes without a
\* text element, extractComments returns exactly N records, one per
\* well-formed node, in DOM order, and none for a node without text element.
C1_ExtractWellFormed ==
  \A r \in ExtractionReplies :
    LET cs == r.response.comments
        wf == { i \in 1..Len(dom) : WellFormed(dom[i]) }
        mt == { i \in 1..Len(dom) : MissingText(dom[i]) }
    IN /\ Len(cs) = Cardinality(wf)
       /\ r.response.count = Cardinality(wf)
       /\ \A k \in 1..Len(cs) :
            /\ cs[k].id[1] = "comment_"
            /\ cs[k].id[2] + 1 \in wf
            /\ cs[k].id[2] + 1 \notin mt
            /\ cs[k].text # << >>
       /\ \A k, l \in 1..Len(cs) : k < l => cs[k].id[2] < cs[l].id[2]

\* Two well-formed nodes around a node without text element have been
\* extracted.
C1_Witness ==
  \E r \in ExtractionReplies :
    /\ Len(dom) = 3
    /\ WellFormed(dom[1]) /\ WellFormed(dom[3])
    /\ MissingText(dom[2])
    /\ Len(r.response.comments) = 2

\* The sentiment a filter button selects.
SentimentOf(filter) ==
  CASE filter = "positive" -> "Positif"
    [] filter = "neutral"  -> "Neutre"
    [] filter = "negative" -> "Négatif"

\* The indexes of the predictions a filter selects.
Selected(predictions, filter) ==
  IF filter = "all" THEN DOMAIN predictions
  ELSE { i \in DOMAIN predictions :
           /\ "sentiment" \in DOMAIN predictions[i]
           /\ predictions[i].sentiment = SentimentOf(filter) }

\* The k-th smallest element of a set of numbers.
Kth(S, k) == CHOOSE i \in S : Cardinality({ j \in S : j < i }) = k - 1

\* C6: for the current filter f in {positive, neutral, negative} the list
\* rendered by displayComments is exactly the sub-sequence of the
\* predictions whose sentiment is "Positif", "Neutre", "Négatif", in the
\* original order; for f = all it is the whole array in order.
C6_FilterSubsequence ==
  currentFilter \in Filters =>
    LET sel == Selected(currentPredictions, currentFilter)
    IN /\ Len(commentsList) = Cardinality(sel)
       /\ \A k \in 1..Len(commentsList) :
            commentsList[k] = currentPredictions[Kth(sel, k)]

\* A filter has kept the first and the third of three predictions.
C6_Witness ==
  /\ currentFilter = "negative"
  /\ Len(currentPredictions) = 3
  /\ Selected(currentPredictions, currentFilter) = {1, 3}
  /\ Len(commentsList) = 2
  /\ commentsList[2] = currentPredictions[3]

\* The merged records that hold the fields of a scraped comment.
HasComment(record) ==
  { "id", "author", "likes", "time" } \subseteq DOMAIN record

\* C2: when the predictions array of a successful classification differs
\* in length from the comments sent, the merge either rejects the response
\* (the run ends with an error and currentPredictions is not replaced) or
\* yields exactly min(len(comments), len(predictions)) merged records, each
\* with the fields of a scraped comment.
C2_MergeMismatch ==
  (~run.active /\ run.merged /\ run.npreds # Len(currentComments)) =>
    \/ /\ run.ended = "error"
       /\ currentPredictions = run.before
    \/ /\ Len(currentPredictions) = Min(Len(currentComments), run.npreds)
       /\ \A i \in 1..Len(currentPredictions) :
            HasComment(currentPredictions[i])

\* The replies of the worker that this step adds.
NewReplies == fromWorker' \ fromWorker

\* The fetch that the worker resumes from in this step, for `action`.
Resumed(action) ==
  { h \in http : h.action = action /\ h.settled # None /\ h \notin http' }

Is2xx(outcome) ==
  outcome.kind = "response" /\ outcome.status \in 200..299

BodyStatusHealthy(outcome) ==
  /\ "json" \in DOMAIN outcome
  /\ "status" \in DOMAIN outcome.json
  /\ outcome.json.status = "healthy"

\* C3 as stated: for a checkHealth whose HTTP call returns a 2xx status the
\* worker replies success:true and healthy:h, h true iff the status field
\* of the body is "healthy".
C3_Every2xx ==
  [][ \A h \in Resumed("checkHealth") :
        Is2xx(h.settled) =>
          \A r \in NewReplies :
            /\ r.response.success = TRUE
            /\ r.response.healthy = BodyStatusHealthy(h.settled) ]_vars

\* C3, amended: for a checkHealth whose HTTP call returns a 2xx status and
\* a body that parses as JSON and is not null, the worker replies
\* success:true and healthy:h, h true iff the status field of the body is
\* "healthy"; a body with status "unhealthy" is answered success:true,
\* healthy:false.
C3_HealthOf2xxJson ==
  [][ \A h \in Resumed("checkHealth") :
        ( /\ Is2xx(h.settled)
          /\ "json" \in DOMAIN h.settled
          /\ h.settled.json # JsonNull ) =>
          /\ NewReplies # {}
          /\ \A r \in NewReplies :
               /\ r.ok /\ r.action = "checkHealth"
               /\ r.response.success = TRUE
               /\ "error" \notin DOMAIN r.response
               /\ r.response.healthy = BodyStatusHealthy(h.settled) ]_vars

\* The worker has answered a 2xx body with status "unhealthy" by
\* success:true, healthy:false.
C3_Witness ==
  \E r \in fromWorker :
    /\ r.ok /\ r.action = "checkHealth" /\ r.flow = "run"
    /\ r.response.success = TRUE
    /\ r.response.healthy = FALSE
    /\ r.response.data = [ status |-> "unhealthy", model_loaded |-> FALSE ]

\* The requests of the current run, in the order they were sent.
SentKinds == { run.trace[i].kind : i \in { j \in 1..Len(run.trace) :
                                            run.trace[j].ev = "send" } }

ExtractionOk(e) ==
  /\ "success" \in DOMAIN e /\ e.success
  /\ Len(e.comments) >= 1

HealthOk(h) ==
  /\ "success" \in DOMAIN h /\ h.success
  /\ h.healthy

HealthBad(h) == "success" \in DOMAIN h /\ (~h.success \/ ~h.healthy)

ClassifyInFlight ==
  \/ \E m \in toWorker : m.flow = "run" /\ m.action = "analyzeSentiment"
  \/ \E op \in wOps : op.flow = "run" /\ op.action = "analyzeSentiment"
  \/ \E r \in fromWorker : r.flow = "run" /\ r.action = "analyzeSentiment"

\* C4: an analyzeSentiment request is sent only after the extraction of the
\* same run returned success with at least one comment and the health check
\* of the same run returned success:true and healthy:true; a health reply
\* that is a transport failure and one that reports an unhealthy backend
\* abort the run in the same way, before any classification request.
C4_ClassifyAfterHealthy ==
  /\ []( ("analyzeSentiment" \in SentKinds \/ ClassifyInFlight) =>
           /\ ExtractionOk(run.extraction)
           /\ HealthOk(run.health) )
  /\ [][ (run.active /\ HealthBad(run'.health)) =>
           /\ ~run'.active /\ run'.ended = "error"
           /\ runPc' = "idle" /\ ~loading'
           /\ statusBar' = [ message |-> Msg("API indisponible"),
                             type |-> "error" ]
           /\ "analyzeSentiment" \notin SentKinds'
           /\ ~ClassifyInFlight'
           /\ toWorker' = toWorker
           /\ currentPredictions' = currentPredictions ]_vars

\* The batch of a run is on its way to the worker.
C4_Witness ==
  /\ \E m \in toWorker : m.flow = "run" /\ m.action = "analyzeSentiment"
  /\ HealthOk(run.health)
  /\ ExtractionOk(run.extraction)

\* C5: whenever a run ends with an error, currentPredictions is identical
\* to its value before the run started.
C5_NoPartialResult ==
  (~run.active /\ run.ended = "error") => currentPredictions = run.before

\* C7: serving scrollAndExtract with the comments container present makes
\* the fixed number of scrolls; only after the pause of the last scroll
\* the extraction runs, exactly once, and exactly one response is sent,
\* carrying the records and the count of that extraction.
C7_ScrollThenExtractOnce ==
  /\ []( (csLog.action = "scrollAndExtract" /\ csLog.container) =>
           /\ csLog.scrolls <= MaxScrolls
           /\ csLog.pauses <= csLog.scrolls
           /\ csLog.scrolls <= csLog.pauses + 1
           /\ csLog.extracts <= 1 /\ csLog.responses = csLog.extracts
           /\ csLog.extracts = 1 =>
                csLog.scrolls = MaxScrolls /\ csLog.pauses = MaxScrolls
           /\ csLog.extracts = 0 <=> csPending # None )
  /\ [][ (csLog.action = "scrollAndExtract" /\ csLog.container
            /\ csLog'.responses = csLog.responses + 1) =>
           /\ csLog.pauses = MaxScrolls - 1 /\ csTimer
           /\ Cardinality(fromContent' \ fromContent) = 1
           /\ \A r \in fromContent' \ fromContent :
                /\ r.ok /\ r.action = "scrollAndExtract"
                /\ r.response.success
                /\ r.response.comments = extractComments(dom)
                /\ r.response.count = Len(extractComments(dom)) ]_vars

\* A scrollAndExtract was served with the container present and two
\* comments were found after the scrolls.
C7_Witness ==
  /\ csLog.action = "scrollAndExtract" /\ csLog.container
  /\ csLog.responses = 1 /\ csLog.scrolls = MaxScrolls
  /\ \E r \in fromContent : r.ok /\ r.response.count = 2

Relayed == { "analyzeSentiment", "checkHealth" }

FetchesOf(op, requests) ==
  { h \in requests : h.flow = op.flow /\ h.action = op.action }

FetchFailed(outcome) ==
  \/ outcome.kind = "network"
  \/ outcome.kind = "response" /\ outcome.status \notin 200..299

\* C8: for each analyzeSentiment or checkHealth message the worker issues
\* exactly one HTTP request; if it fails with a network error or a non-2xx
\* status, the worker replies success:false with an error string and issues
\* no second HTTP request for that message.
C8_OneRequestNoRetry ==
  /\ []( /\ \A op \in wOps :
              /\ op.action \in Relayed
              /\ op.fetches = 1
              /\ Cardinality(FetchesOf(op, http)) = 1
         /\ \A h \in http : \E op \in wOps : h \in FetchesOf(op, http) )
  /\ [][ /\ \A m \in toWorker :
              (m.action \in Relayed /\ m \notin toWorker'
                 /\ fromWorker' = fromWorker) =>
                /\ Cardinality(http' \ http) = 1
                /\ Cardinality(wOps' \ wOps) = 1
         /\ \A a \in Relayed : \A h \in Resumed(a) :
              /\ http' = http \ {h}
              /\ Cardinality(NewReplies) = 1
              /\ FetchFailed(h.settled) =>
                   \A r \in NewReplies :
                     /\ r.ok /\ r.action = a /\ r.flow = h.flow
                     /\ r.response.success = FALSE
                     /\ "error" \in DOMAIN r.response
                     /\ r.response.error # << >>
                     /\ "data" \notin DOMAIN r.response ]_vars

\* The worker has answered a classification whose HTTP call returned 503.
C8_Witness ==
  \E r \in fromWorker :
    /\ r.ok /\ r.action = "analyzeSentiment"
    /\ r.response.success = FALSE
    /\ r.response.error = << "HTTP error! status: ", 503 >>
    /\ http = {} /\ wOps = {}

\* The requests of the run that are on their way or being served, and the
\* responses not yet received by the run.
RunInFlight ==
  Cardinality({ q \in tabQueries : q.flow = "run" })
    + Cardinality({ q \in tabResults : q.flow = "run" })
    + Cardinality({ m \in toContent : m.flow = "run" })
    + Cardinality({ m \in fromContent : m.flow = "run" })
    + Cardinality({ m \in toWorker : m.flow = "run" })
    + Cardinality({ op \in wOps : op.flow = "run" })
    + Cardinality({ m \in fromWorker : m.flow = "run" })

RunKinds == << "tabQuery", "extractComments", "wakeUp", "checkHealth",
               "analyzeSentiment" >>

\* C9: within one run the steps are strictly sequential: the run has at
\* most one request outstanding, each request is issued only after the
\* response to the previous one was received, and each kind of request is
\* issued at most once per run.
C9_Sequential ==
  /\ RunInFlight <= 1
  /\ RunInFlight = 1 <=>
       (Len(run.trace) > 0 /\ run.trace[Len(run.trace)].ev = "send")
  /\ \A i \in 1..Len(run.trace) :
       /\ run.trace[i].ev = (IF i % 2 = 1 THEN "send" ELSE "recv")
       /\ run.trace[i].kind = RunKinds[(i + 1) \div 2]
  /\ Len(run.trace) <= 2 * Len(RunKinds)

\* The run has received four responses and its fifth request is
\* outstanding.
C9_Witness ==
  /\ Len(run.trace) = 9
  /\ RunInFlight = 1
  /\ \E op \in wOps : op.flow = "run" /\ op.action = "analyzeSentiment"

DeploymentUrls == { API_CONFIG[k] : k \in DOMAIN API_CONFIG }

\* C11: after any sequence of messages handled by the worker, switchApi
\* messages with any apiType included, the base URL of the worker's next
\* HTTP request, and of every request it has issued, is one of the two
\* preconfigured deployment URLs.
C11_UrlPreconfigured ==
  /\ getApiUrl(apiCurrent) \in DeploymentUrls
  /\ \A h \in http : h.url[1] \in DeploymentUrls

\* A switchApi message is handled in this step.
SwitchHandled ==
  \E m \in toWorker : m.action = "switchApi" /\ m \notin toWorker'

\* C12: the selected deployment is persisted: once the worker's target
\* equals the stored apiType (saveSettings has completed), it stays equal to
\* it until the stored value changes or another switchApi is handled, also
\* when the worker is suspended and restarted; every request the worker
\* then issues goes to the URL of the stored apiType.
C12_TargetPersisted ==
  [][ (/\ apiCurrent = storage.apiType
       /\ storage' = storage
       /\ ~SwitchHandled)
        => /\ apiCurrent' = storage'.apiType
           /\ \A h \in http' \ http :
                h.url[1] = getApiUrl(storage'.apiType) ]_vars

\* The responses the run takes in this step.
TabTaken     == { r \in tabResults \ tabResults' : r.flow = "run" }
ContentTaken == { r \in fromContent \ fromContent' : r.flow = "run" }
WorkerTaken(action) ==
  { r \in fromWorker \ fromWorker' : r.flow = "run" /\ r.action = action }

UnsupportedTab(r) ==
  IF r.tab = None THEN TRUE ELSE ~includes(r.tab.url, "youtube.com/watch")

FailedExtraction(r) ==
  IF ~r.ok THEN TRUE
  ELSE IF ~r.response.success THEN TRUE
  ELSE Len(r.response.comments) = 0

FailedHealth(r) == IF ~r.ok THEN TRUE ELSE HealthBad(r.response)

FailedClassification(r) == IF ~r.ok THEN TRUE ELSE ~r.response.success

NoRequestSent ==
  /\ tabQueries' \subseteq tabQueries
  /\ toContent' \subseteq toContent
  /\ toWorker' \subseteq toWorker

\* C13: every run in which a step fails (unsupported tab, no response or
\* failure of the extractor, zero comments, failed or unhealthy health
\* check, failed classification, an exception) ends, in the step that takes
\* the failing response, with a status of type error, and sends no request
\* after the failing step.
C13_FailureEndsRun ==
  [][ /\ run.active =>
           /\ \A r \in TabTaken : UnsupportedTab(r) => run'.ended = "error"
           /\ \A r \in ContentTaken :
                FailedExtraction(r) => run'.ended = "error"
           /\ \A r \in WorkerTaken("checkHealth") :
                FailedHealth(r) => run'.ended = "error"
           /\ \A r \in WorkerTaken("analyzeSentiment") :
                FailedClassification(r) => run'.ended = "error"
           /\ run'.ended = "error" =>
                /\ ~run'.active
                /\ runPc' = "idle"
                /\ statusBar'.type = "error"
                /\ NoRequestSent
      /\ (~run'.active /\ run'.ended = "error") =>
           /\ RunInFlight' = 0
           /\ runPc' = "idle" ]_vars

\* A run has ended with an error after the classification failed.
C13_Witness ==
  /\ ~run.active /\ run.ended = "error"
  /\ Len(run.trace) = 10
  /\ ~run.merged
  /\ statusBar.type = "error"
  /\ RunInFlight = 0

\* C14: if the URL of the active tab is not a supported page, the run
\* aborts with an error status without sending any message to the content
\* script or to the worker and without changing currentComments or
\* currentPredictions.
C14_UnsupportedTabAborts ==
  [][ \A r \in TabTaken :
        (run.active /\ r.tab # None /\ r.tab.url = UrlOther) =>
          /\ ~run'.active /\ run'.ended = "error"
          /\ runPc' = "idle"
          /\ statusBar'.type = "error"
          /\ loading' = FALSE
          /\ toContent' = toContent
          /\ toWorker' = toWorker
          /\ currentComments' = currentComments
          /\ currentPredictions' = currentPredictions ]_vars

\* A run on a tab that shows no video has been aborted after its tab query.
C14_Witness ==
  /\ tab # None /\ tab.url = UrlOther
  /\ ~run.active /\ run.ended = "error"
  /\ Len(run.trace) = 2
  /\ statusBar = [ message |-> Msg("Veuillez ouvrir une vidéo YouTube"),
                   type |-> "error" ]
  /\ toContent = {} /\ toWorker = {}

WorkflowInFlight == runPc # "idle" \/ morePc # "idle"

\* C15: at most one workflow run (analysis or load-more) is in flight in a
\* popup: while one is in flight both buttons are disabled, and a click
\* made between its start and its end starts neither analyzeComments nor
\* loadMoreComments.
C15_OneWorkflow ==
  /\ [](~(runPc # "idle" /\ morePc # "idle"))
  /\ [](WorkflowInFlight => loading)
  /\ [](run.active <=> runPc # "idle")
  /\ [][ (clicks' # clicks /\ WorkflowInFlight) =>
           /\ runPc' = runPc /\ morePc' = morePc
           /\ run' = run
           /\ tabQueries' = tabQueries
           /\ statusBar' = statusBar /\ loading' = loading ]_vars

\* A load-more run is in flight after an analysis run has ended.
C15_Witness ==
  /\ morePc = "scroll" /\ runPc = "idle"
  /\ run.ended # "no"
  /\ loading
  /\ clicks = MaxClicks

\* A click on a filter button: a click that starts neither workflow.
FilterClicked ==
  clicks' # clicks /\ runPc' = runPc /\ morePc' = morePc /\ savePc' = savePc

\* C16: changing the filter never re-queries the network: filterComments
\* sends no message to the worker or to the content script, leaves
\* currentPredictions and currentComments unchanged, and changes only
\* currentFilter and the rendered list.
C16_FilterIsLocal ==
  [][ FilterClicked =>
        /\ toWorker' = toWorker /\ toContent' = toContent
        /\ tabQueries' = tabQueries
        /\ fromWorker' = fromWorker /\ fromContent' = fromContent
        /\ wOps' = wOps /\ http' = http
        /\ currentPredictions' = currentPredictions
        /\ currentComments' = currentComments
        /\ currentFilter' \in Filters
        /\ Len(commentsList') =
             Cardinality(Selected(currentPredictions, currentFilter'))
        /\ UNCHANGED << pageVars, csVars, tabResults, apiCurrent,
                        keepAliveVars, storage, initPc, texts, statistics,
                        videoInfo, popupUi, run >> ]_vars

\* After a successful run the user has chosen the filter `positive`, which
\* hides one of the two predictions.
C16_Witness ==
  /\ currentFilter = "positive"
  /\ Len(currentPredictions) = 2
  /\ Len(commentsList) = 1
  /\ run.ended = "success"
  /\ toWorker = {} /\ toContent = {} /\ http = {}

\* What the load-more run has in flight at the worker.
MoreAtWorker ==
  { m \in toWorker : m.flow = "more" }
    \cup { op \in wOps : op.flow = "more" }
    \cup { h \in http : h.flow = "more" }
    \cup { r \in fromWorker : r.flow = "more" }

\* C17: a load-more run sends only a scrollAndExtract request to the
\* content script: it never sends checkHealth or analyzeSentiment to the
\* worker, does not start an analysis run when it finishes, and leaves
\* currentComments and currentPredictions unchanged.
C17_LoadMoreAlone ==
  /\ [](MoreAtWorker = {})
  /\ [](\A m \in toContent : m.flow = "more" => m.action = "scrollAndExtract")
  /\ [][ morePc' # morePc =>
           /\ toWorker' = toWorker
           /\ currentComments' = currentComments
           /\ currentPredictions' = currentPredictions
           /\ commentsList' = commentsList
           /\ runPc' = runPc /\ run' = run
           /\ \A m \in toContent' \ toContent :
                m.flow = "more" /\ m.action = "scrollAndExtract"
           /\ morePc' = "idle" =>
                /\ tabQueries' \subseteq tabQueries
                /\ toContent' = toContent
                /\ runPc' = "idle" ]_vars

\* A load-more run has ended and reports one comment on the page, while
\* the popup holds no comment.
C17_Witness ==
  /\ morePc = "idle" /\ runPc = "idle"
  /\ statusBar = [ message |->
                     MsgN("n commentaires chargés. Cliquez sur Analyser.", 1),
                   type |-> "success" ]
  /\ currentComments = << >> /\ currentPredictions = << >>
  /\ MoreAtWorker = {}

\* C18: when the comments container is absent, handling scrollAndExtract
\* performs no scroll and no pause, still runs the extraction once and
\* replies with success:true, never with success:false.
C18_NoContainerNoScroll ==
  /\ []((csLog.action = "scrollAndExtract" /\ ~csLog.container) =>
          /\ csLog.scrolls = 0 /\ csLog.pauses = 0
          /\ csLog.extracts = 1 /\ csLog.responses = 1
          /\ csPending = None /\ ~csTimer)
  /\ [][ \A r \in fromContent' \ fromContent :
           (r.action = "scrollAndExtract" /\ r.ok /\ ~hasContainer) =>
             /\ r.response.success = TRUE
             /\ r.response.comments = extractComments(dom)
             /\ r.response.count = Len(r.response.comments)
             /\ csLog'.action = "scrollAndExtract"
             /\ ~csLog'.container ]_vars

\* scrollAndExtract was answered on a page without comments container.
C18_Witness ==
  /\ ~hasContainer
  /\ csLog.action = "scrollAndExtract" /\ ~csLog.container
  /\ csLog.responses = 1
  /\ \E r \in fromContent :
       /\ r.action = "scrollAndExtract" /\ r.ok
       /\ r.response.success /\ r.response.count = 0

\* C19: whenever the worker has a pending asynchronous operation (a
\* checkHealth or analyzeSentiment whose response has not been sent), the
\* keepalive timer is active, under any interleaving of messages,
\* install/startup events and suspend events.
C19_KeepAliveWhilePending ==
  wOps # {} => keepAliveInterval # Null

SettingsKeys == { "apiType", "darkMode", "autoAnalyze" }

\* The steps of saveSettings and of toggleDarkMode that write the storage.
SaveWrites   == savePc = "idle" /\ savePc' = "stored"
ToggleWrites == clicks' # clicks /\ ui'.dark # ui.dark

\* C20: after installation the persisted settings always hold the three
\* keys apiType, darkMode and autoAnalyze; saveSettings writes only apiType
\* and toggleDarkMode writes only darkMode, so neither overwrites or loses
\* the other's value, and no operation removes a key.
C20_SettingsKeys ==
  /\ [](DOMAIN storage = SettingsKeys)
  /\ [][ /\ DOMAIN storage \subseteq DOMAIN storage'
         /\ SaveWrites =>
              /\ storage'.apiType = ui'.radio
              /\ \A k \in DOMAIN storage \ { "apiType" } :
                   k \in DOMAIN storage' /\ storage'[k] = storage[k]
         /\ ToggleWrites =>
              /\ storage'.darkMode = ui'.dark
              /\ \A k \in DOMAIN storage \ { "darkMode" } :
                   k \in DOMAIN storage' /\ storage'[k] = storage[k] ]_vars

\* The user has saved the hosted deployment and switched to dark mode.
C20_Witness ==
  /\ storage = [ apiType |-> "production", darkMode |-> TRUE,
                 autoAnalyze |-> FALSE ]
  /\ savePc = "idle"
  /\ apiCurrent = "production"
  /\ ui.dark

CommentFields    == { "id", "author", "likes", "time" }
PredictionFields == { "label", "sentiment", "confidence" }

\* Record `merged` carries the fields `fields` of record `from`.
Carries(merged, from, fields) ==
  \A k \in fields : k \in DOMAIN merged /\ k \in DOMAIN from
                      /\ merged[k] = from[k]

\* C21: after a successful run, for every index i below the number of
\* predictions, merged record i carries the id, author, likes and time of
\* scraped comment i and the label, sentiment and confidence of prediction
\* i, and its text is the text of the prediction.
C21_MergeByIndex ==
  [][ \A r \in WorkerTaken("analyzeSentiment") :
        run'.ended = "success" =>
          LET ps == r.response.data.predictions
          IN /\ Len(currentPredictions') = Len(ps)
             /\ \A i \in 1..Len(ps) :
                  /\ i \in DOMAIN currentComments
                  /\ Carries(currentPredictions'[i], currentComments[i],
                             CommentFields)
                  /\ Carries(currentPredictions'[i], ps[i],
                             PredictionFields \cup { "text" }) ]_vars


\* The fields of the worker's answer to each action: part_001 lines 134,
\* 68-71 and 76-80, 108-112 and 115-119, 169 and 175.
ReplyShape(action, reply) ==
  CASE action = "wakeUp" ->
         DOMAIN reply = { "success", "message" } /\ reply.success
    [] action = "switchApi" ->
         DOMAIN reply = { "success", "apiUrl" } /\ reply.success
    [] action = "checkHealth" ->
         \/ /\ DOMAIN reply = { "success", "healthy", "data" }
            /\ reply.success /\ reply.healthy \in BOOLEAN
         \/ /\ DOMAIN reply = { "success", "healthy", "error" }
            /\ ~reply.success /\ ~reply.healthy
    [] action = "analyzeSentiment" ->
         \/ DOMAIN reply = { "success", "data" } /\ reply.success
         \/ DOMAIN reply = { "success", "error" } /\ ~reply.success
    [] OTHER ->
         DOMAIN reply = { "success", "error" } /\ ~reply.success

\* The requests the listener takes in this step, the calls that return in
\* it and the answers sent in it.
Received  == toWorker \ toWorker'
Returning == wOps \ wOps'
Answers   == fromWorker' \ fromWorker
AnswersTo(m) ==
  { r \in Answers : r.flow = m.flow /\ r.action = m.action }
CallsFor(m) ==
  { op \in wOps' \ wOps : op.flow = m.flow /\ op.action = m.action }

\* The request is answered now, or a call is pending that will answer it.
AnsweredOnce(m) ==
  \/ /\ Cardinality(AnswersTo(m)) = 1 /\ CallsFor(m) = {}
     /\ \A r \in AnswersTo(m) : r.ok /\ ReplyShape(m.action, r.response)
  \/ /\ AnswersTo(m) = {} /\ Cardinality(CallsFor(m)) = 1
     /\ m.action \in { "checkHealth", "analyzeSentiment" }

\* What startKeepAlive leaves: a running timer, and no second one.
KeepAliveEnsured ==
  /\ keepAliveInterval' # Null
  /\ timers' = IF keepAliveInterval = Null THEN timers + 1 ELSE timers
  /\ pings' = pings

\* C22: every request the worker's listener receives is answered exactly
\* once: at once for wakeUp, switchApi and any unknown action, and when the
\* call returns for checkHealth and analyzeSentiment, by one reply that has
\* the fields of its action; no answer is sent for anything else; and an
\* unknown action gets {success:false, error} while the worker's API target
\* and its pending calls and fetches stay as they are and the keepalive
\* timer runs.
C22_OneReplyPerMessage ==
  [][ /\ \A m \in Received : AnsweredOnce(m)
      /\ \A op \in Returning :
            /\ Cardinality(AnswersTo(op)) = 1
            /\ \A r \in AnswersTo(op) :
                  r.ok /\ ReplyShape(op.action, r.response)
      /\ Cardinality(Answers) = Cardinality(Returning) +
            Cardinality({ m \in Received : CallsFor(m) = {} })
      /\ \A m \in Received :
            m.action \notin KnownActions =>
              /\ \A r \in AnswersTo(m) :
                    r.response.error = "Action inconnue"
              /\ UNCHANGED << apiCurrent, wOps, http >>
              /\ KeepAliveEnsured ]_vars

\* The worker has answered a request without an action, sent by a page
\* while a health check of the popup was pending.
C22_Witness ==
  /\ \E r \in fromWorker :
        /\ r.flow = "page" /\ r.action = Undefined
        /\ r.response = [ success |-> FALSE, error |-> "Action inconnue" ]
  /\ \E op \in wOps : op.flow = "init" /\ op.action = "checkHealth"
  /\ apiCurrent = "local"


\* C26: the worker never has more than one keepalive interval timer, and
\* the handle is set exactly when the timer runs; a step that finds the
\* handle set and leaves it set (every startKeepAlive call while the timer
\* is active) starts no timer; a step that leaves the handle null leaves no
\* timer (stopKeepAlive); and a timer tick changes neither the API target
\* nor the handle, the timer, the pending calls or the fetches.
C26_OneKeepAliveTimer ==
  /\ [](timers \in { 0, 1 } /\ (keepAliveInterval # Null <=> timers = 1))
  /\ [][ /\ (keepAliveInterval # Null /\ keepAliveInterval' # Null) =>
             (timers' = timers /\ keepAliveInterval' = keepAliveInterval)
         /\ keepAliveInterval' = Null => timers' = 0
         /\ pings' # pings =>
             UNCHANGED << apiCurrent, keepAliveInterval, timers, wOps,
                          http, storage >> ]_vars

\* The timer has ticked, a switchApi request was handled while it ran, and
\* the suspend event has stopped it since.
C26_Witness ==
  /\ keepAliveInterval = Null /\ timers = 0
  /\ pings = MaxPings
  /\ apiCurrent = "production"


\* The classification fetches of the run.
RunPosts == { h \in http : h.flow = "run" /\ h.method = "POST" }

\* C23: the POST /predict_batch of a run goes to the base URL that the run's
\* GET /health went to, whatever the settings dialog does in between.
C23_SameDeployment ==
  \A h \in RunPosts : h.url[1] = run.healthUrl


\* The comments arrays on their way to the API: in the analyzeSentiment
\* messages and in the bodies of the POST /predict_batch fetches.
Batches ==
  { m.comments : m \in { x \in toWorker : x.action = "analyzeSentiment" } }
    \cup { h.body.comments : h \in { x \in http : x.method = "POST" } }

\* C24: every comments array sent for classification has between 1 and
\* BatchLimit entries.
C24_BatchBound ==
  \A b \in Batches : Len(b) >= 1 /\ Len(b) <= BatchLimit


\* C25: with every request answered, a run of analyzeComments and a run of
\* loadMoreComments come to their end, and the step that ends either of
\* them, on whatever path, leaves the spinner hidden and the analyze and
\* load-more buttons enabled.
C25_RunsEndUnlocked ==
  /\ (runPc # "idle") ~> (runPc = "idle")
  /\ (morePc # "idle") ~> (morePc = "idle")
  /\ [][ /\ (runPc # "idle" /\ runPc' = "idle") => ~loading'
         /\ (morePc # "idle" /\ morePc' = "idle") => ~loading' ]_vars

\* A run has ended on the early exit of an unhealthy API and a later
\* load-more has ended too; the buttons are enabled.
C25_Witness ==
  /\ run.ended = "error" /\ run.health # None
  /\ runPc = "idle" /\ morePc = "idle"
  /\ clicks = 2
  /\ csLog.action = "scrollAndExtract"
  /\ ~loading

====
